---- MODULE Spec2Model ----
(***************************************************************************)
(* Model of the resilient key/value layer of newsbot (src/lib/redis.ts):   *)
(* the lazily constructed write and read-only client handles, the          *)
(* best-effort search cache and the capped, TTL-refreshed session log;     *)
(* further down, of its embedding provider and its vector store.           *)
(*                                                                         *)
(* The functions of redis.ts are async: the JavaScript event loop runs one *)
(* continuation at a time and may switch between in-flight calls at every  *)
(* await.  Each action below is one such continuation: the code from one   *)
(* await to the next.  A request to the backing store is applied by the    *)
(* store at one instant; its answer is "ok", "fail" (network error or      *)
(* timeout, request not applied) or "auth" (an error whose message carries *)
(* WRONGPASS or Unauthorized).                                             *)
(***************************************************************************)
EXTENDS Integers, Sequences, FiniteSets, TLC

\* ---------------------------------------------------------------- bounds
MaxAppends == 2        \* append calls issued over one behaviour

\* ------------------------------------------------------ program constants
MaxHistory == 50       \* ltrim(historyKey, -50, -1)
SessionTTL == 86400    \* expire(historyKey, 24 * 60 * 60)
CacheTTL == 300        \* cacheSearchResults(query, results, ttl = 300)

\* two request-handling contexts: every pair of calls can be in flight at once
Procs == {"p1", "p2"}
Sessions == {"s1", "s2"}
Queries == {"q1"}
Values == {1}
Outcomes == {"ok", "fail", "auth"}
\* the calls issued in one behaviour: every function on one session, or the
\* session functions on two sessions
Workloads ==
  { [sessions |-> {"s1"}, cache |-> TRUE],
    [sessions |-> Sessions, cache |-> FALSE] }
\* the log of s1 starts one below the cap, the log of s2 empty
InitLen == MaxHistory - 1
\* process.env at start: fully configured, read-only token only, nothing, bad url
Envs ==
  { [url |-> "ok", token |-> TRUE, roToken |-> FALSE],
    [url |-> "ok", token |-> FALSE, roToken |-> TRUE],
    [url |-> "missing", token |-> TRUE, roToken |-> TRUE],
    [url |-> "invalid", token |-> TRUE, roToken |-> FALSE] }

NoClient == "null"
WriteClient == "w"
ReadClient == "r"

VARIABLES
  redisClient,          \* module variable redisClient: NoClient or WriteClient
  readOnlyRedisClient,  \* module variable readOnlyRedisClient
  redisDisabled,        \* module variable redisDisabled
  redisErrorLogged,     \* module variable redisErrorLogged
  env,                  \* process.env: url, token, roToken
  load,                 \* the workload of this behaviour
  lists,                \* store: session:<id>:history lists
  ttl,                  \* store: expiry of each history key (0 = none)
  cache,                \* store: search:<base64(query)> entries
  cacheTtl,             \* store: expiry of each cache entry (0 = none)
  healthcheck,          \* store: the "healthcheck" key has been written
  warnCount,            \* console: authorization warnings emitted
  probeFailed,          \* console: "connection test failed" emitted
  pc, op, arg, msg,     \* per call: position, function, sessionId/query, message/value
  client,               \* per call: the local `client`
  result,               \* per call: the value returned
  http,                 \* per call: the answer of the DELETE route
  last,                 \* per call: the answer to its latest request, or "none"
  nextMsg,              \* next fresh message
  pushed                \* per session: entries pushed since the last delete, or Lost

(***************************************************************************)
(* The embedding provider (src/lib/embeddings.ts) and the vector store     *)
(* (src/lib/redis.ts, second part).  Numbers of the program are binary64;  *)
(* here a number is an integer count of 1/Scale, every arithmetic result   *)
(* is rounded to the nearest such count, and NaN is one more value.        *)
(* Strings are sequences of one-character strings.                         *)
(***************************************************************************)
\* ---------------------------------------------------------------- bounds
MaxChunks == 2         \* chunks in the persisted corpus
MaxTopK == 2           \* largest topK passed to a search
MaxBatch == 2          \* texts passed to one createBatchEmbeddings call
MaxReads == 2          \* readFileSync calls on the chunk file

\* three decimal places stand for the 53-bit significand
Scale == 1000
NaN == 0 - Scale * Scale

\* ------------------------------------------------------ program constants
SimilarityWeight == (7 * Scale) \div 10     \* similarity * 0.7
RecencyWeight == (2 * Scale) \div 10        \* recencyScore * 0.2
TitleWeight == Scale \div 10                \* titleScore * 0.1
RecencyDays == 30                           \* 1 - daysDiff / 30
MinSimilarity == Scale \div 10              \* result.similarity > 0.1
KeyPrefix == 1     \* characters of the text kept by base64(text).substring(0, 50)

NoInfoContext == "No relevant news articles found for this query."
NoInfoSummary == "No relevant information available."

\* the query texts: "C", "" and "C z"
Texts == { <<"C">>, <<>>, <<"C", " ", "z">> }
TopKs == 1..MaxTopK
Batches == UNION { [1..n -> Texts] : n \in 0..MaxBatch }

VARIABLES
  file,             \* data/embedded_chunks.json: its kind and the chunks it holds
  fileReads,        \* readFileSync calls made on it so far
  embeddedChunks,   \* module variable embeddedChunks: loaded or not, and the chunks
  embeddedWarningLogged,  \* module variable embeddedWarningLogged
  jinaApiKey,       \* process.env.JINA_API_KEY is set
  embeddingCache,   \* module variable embeddingCache: cache key -> vector (<<>> = none)
  rpc,              \* the vector-store call: its position
  fn,               \* the function called: "search", "context" or "embed"
  query, topK,      \* its arguments
  embedding,        \* the vector createEmbedding returned to it
  results,          \* searchSimilarChunks: the scored chunks, in the order of the chunks
  topResults,       \* searchSimilarChunks: the value returned
  ragContext,       \* getRAGContext: the value returned
  embedCalls,       \* createEmbedding calls made by this call
  texts,            \* createBatchEmbeddings: its argument
  vectors,          \* createBatchEmbeddings: the value returned
  lastEmbedding,    \* per text: the vector the latest embed call for it returned
  chat,             \* the chat route: its position, the calls it made, its answer
  chats             \* chat requests received so far

VARIABLES
  keyed,            \* the keys derived last and before it: whose, of what text, the key
  setup,            \* scripts/setup-embeddings.js: createEmbeddings, its locals and position
  ui,               \* ChatInterface: its state, its requests in flight
  localStorage      \* the browser's newsbot_history_<session id> items

redisVars == <<redisClient, readOnlyRedisClient, redisDisabled, redisErrorLogged, env, load,
               lists, ttl, cache, cacheTtl, healthcheck, warnCount, probeFailed,
               pc, op, arg, msg, client, result, http, last, nextMsg, pushed>>
batchVars == <<texts, vectors>>
loadVars == <<fileReads, embeddedWarningLogged>>
ragLocals == <<rpc, fn, query, topK, embedding, results, topResults, ragContext, embedCalls,
               batchVars>>
ragVars == <<file, loadVars, embeddedChunks, jinaApiKey, embeddingCache, ragLocals,
            lastEmbedding>>
keyVars == <<keyed>>
setupVars == <<setup>>
clientVars == <<ui, localStorage>>
chatVars == <<chat, chats, keyVars, setupVars, clientVars>>
vars == <<redisVars, ragVars, chatVars>>


store == <<lists, ttl, cache, cacheTtl, healthcheck>>
handles == <<redisClient, readOnlyRedisClient, redisDisabled, redisErrorLogged>>
console == <<warnCount, probeFailed>>

\* value of pushed[s] once an append to s ended without push, expire and trim
Lost == << <<"lost", 0>> >>

\* ------------------------------------------------------------ pure helpers
\* Values are pairs <<form, n>>: <<"obj", n>> is the JavaScript object n (a
\* message or a search result), <<"json", n>> the string holding its JSON text,
\* <<"objstr", 0>> the string "[object Object]".  Messages and results are
\* named by their number n.

\* JSON.stringify(value): the string holding the JSON text of object v
JsonStringify(v) == <<"json", v>>

\* The reply of the @upstash/redis client built by new Redis({ url, token }):
\* by default it hands back a stored string that is JSON text as the parsed
\* value, and any other string as it is
Deserialize(s) == IF s[1] = "json" THEN <<"obj", s[2]>> ELSE s

\* What JSON.parse makes of its argument first: `value as string` converts
\* nothing, so an object becomes the string "[object Object]"
AsString(x) == IF x[1] = "obj" THEN <<"objstr", 0>> ELSE x

\* JSON.parse succeeds exactly on strings holding JSON text
Parses(s) == Len(s) = 2 /\ s[1] = "json"

JsonParse(s) == s[2]

RECURSIVE MapParseFilter(_)
\* history.map(item => try JSON.parse(item as string) catch null).filter(Boolean)
MapParseFilter(h) ==
  IF h = <<>> THEN <<>>
  ELSE IF Parses(AsString(Head(h)))
       THEN <<JsonParse(AsString(Head(h)))>> \o MapParseFilter(Tail(h))
       ELSE MapParseFilter(Tail(h))

\* the reply to lrange(key, 0, -1): every element as the client hands it back
LrangeReply(l) == [i \in 1..Len(l) |-> Deserialize(l[i])]

\* the reply to get(key): null (here <<>>) for a missing key
GetReply(stored) == IF stored = <<>> THEN <<>> ELSE Deserialize(stored)

\* LTRIM key -n -1: keep the last n elements
LtrimLast(l, n) == IF Len(l) <= n THEN l ELSE SubSeq(l, Len(l) - n + 1, Len(l))

\* returned values, all of one shape
Pending == [kind |-> "pending", val |-> <<>>]
Void == [kind |-> "undefined", val |-> <<>>]
Null == [kind |-> "null", val |-> <<>>]
True == [kind |-> "true", val |-> <<>>]
False == [kind |-> "false", val |-> <<>>]
Throws == [kind |-> "throws", val |-> <<>>]
List(l) == [kind |-> "list", val |-> l]
Value(v) == [kind |-> "value", val |-> <<v>>]

WriteOps == {"append", "clear", "cacheSet"}
ReadOps == {"read", "cacheGet"}

\* the value each function returns when no client is available
Degraded(o) ==
  CASE o = "append" -> Void
    [] o = "clear" -> True
    [] o = "cacheSet" -> Void
    [] o = "read" -> List(<<>>)
    [] o = "cacheGet" -> Null

\* the first request of each function
FirstReq(o) ==
  CASE o = "append" -> "rpush"
    [] o = "clear" -> "del"
    [] o = "cacheSet" -> "setex"
    [] o = "read" -> "lrange"
    [] o = "cacheGet" -> "get"

\* DELETE /api/session/[sessionId]: the answer built from clearSession's result
DeleteResponse(r) ==
  IF r = Throws THEN "Internal server error"
  ELSE IF r = True THEN "Session cleared successfully"
  ELSE "Failed to clear session"

HttpOf(o, r) == IF o = "clear" THEN DeleteResponse(r) ELSE "-"

WriteConfigMissing == env.url = "missing" \/ ~env.token
ReadConfigMissing == env.url = "missing" \/ ~(env.roToken \/ env.token)

InitList(n) == [i \in 1..n |-> JsonStringify(i)]

RedisInit ==
  /\ redisClient = NoClient
  /\ readOnlyRedisClient = NoClient
  /\ redisDisabled \in BOOLEAN
  /\ redisErrorLogged = FALSE
  /\ env \in Envs
  /\ load \in Workloads
  /\ lists = [s \in Sessions |-> IF s = "s1" THEN InitList(InitLen) ELSE <<>>]
  /\ ttl = [s \in Sessions |-> IF lists[s] = <<>> THEN 0 ELSE SessionTTL]
  /\ cache = [q \in Queries |-> <<>>]
  /\ cacheTtl = [q \in Queries |-> 0]
  /\ healthcheck = FALSE
  /\ warnCount = 0
  /\ probeFailed = FALSE
  /\ pc = [p \in Procs |-> "idle"]
  /\ op = [p \in Procs |-> "-"]
  /\ arg = [p \in Procs |-> "-"]
  /\ msg = [p \in Procs |-> 0]
  /\ client = [p \in Procs |-> NoClient]
  /\ result = [p \in Procs |-> Pending]
  /\ http = [p \in Procs |-> "-"]
  /\ last = [p \in Procs |-> "none"]
  /\ nextMsg = MaxHistory + 1
  /\ pushed = lists


\* ------------------------------------------------------- per-call updates
\* the locals of the call of p: position l, client c, message m, returned value r
Local(p, o, l, c, m, r) ==
  /\ pc' = [pc EXCEPT ![p] = l]
  /\ client' = [client EXCEPT ![p] = c]
  /\ msg' = [msg EXCEPT ![p] = m]
  /\ result' = [result EXCEPT ![p] = r]
  /\ http' = [http EXCEPT ![p] = IF l = "done" THEN HttpOf(o, r) ELSE "-"]

\* the call of p returns r (its caller resumes with r)
Finish(p, o, r) == Local(p, o, "done", client[p], 0, r)

\* the call of p goes on to its next await
Goto(p, l) == Local(p, op[p], l, client[p], msg[p], Pending)

\* a request of p got the answer out
Sent(p, out) == last' = [last EXCEPT ![p] = out]

\* an append that ends without having pushed, expired and trimmed
Dropped(o, s) ==
  pushed' = IF o = "append" THEN [pushed EXCEPT ![s] = Lost] ELSE pushed

\* the entries pushed to s, with one more
Pushed(s, e) ==
  pushed' = [pushed EXCEPT ![s] = IF @ = Lost THEN Lost ELSE Append(@, e)]

\* WarnOnce without the redisErrorLogged guard
WarnOnce_Unguarded ==
  /\ warnCount' = warnCount + 1
  /\ redisErrorLogged' = TRUE

\* console.warn of the authorization error, guarded by redisErrorLogged
WarnOnce ==
  /\ warnCount' = IF redisErrorLogged THEN warnCount ELSE warnCount + 1
  /\ redisErrorLogged' = TRUE

\* ------------------------------------------------------------ call entries
\* getRedisClient up to its first await, or to its return when it has none;
\* a caller that gets null returns its degraded value
GetRedisClient(p, o, s, m) ==
  IF redisDisabled
  THEN /\ Finish(p, o, Degraded(o))
       /\ Dropped(o, s)
       /\ UNCHANGED <<redisClient, redisDisabled>>
  ELSE IF redisClient # NoClient
  THEN /\ Local(p, o, FirstReq(o), redisClient, m, Pending)
       /\ UNCHANGED <<redisClient, redisDisabled, pushed>>
  ELSE IF WriteConfigMissing
  THEN /\ Finish(p, o, Degraded(o))
       /\ Dropped(o, s)
       /\ UNCHANGED <<redisClient, redisDisabled>>
  ELSE IF env.url = "invalid"
  THEN /\ redisClient' = NoClient
       /\ redisDisabled' = TRUE
       /\ Finish(p, o, Degraded(o))
       /\ Dropped(o, s)
  ELSE /\ redisClient' = WriteClient
       /\ Local(p, o, "probe", NoClient, m, Pending)
       /\ UNCHANGED <<redisDisabled, pushed>>

\* GetReadOnlyRedisClient without the redisDisabled test
GetReadOnlyRedisClient_NoDisabledTest(p, o) ==
  IF readOnlyRedisClient # NoClient
  THEN /\ Local(p, o, FirstReq(o), readOnlyRedisClient, 0, Pending)
       /\ UNCHANGED <<readOnlyRedisClient, redisDisabled>>
  ELSE IF ReadConfigMissing
  THEN /\ Finish(p, o, Degraded(o))
       /\ UNCHANGED <<readOnlyRedisClient, redisDisabled>>
  ELSE IF env.url = "invalid"
  THEN /\ readOnlyRedisClient' = NoClient
       /\ redisDisabled' = TRUE
       /\ Finish(p, o, Degraded(o))
  ELSE /\ readOnlyRedisClient' = ReadClient
       /\ Local(p, o, FirstReq(o), ReadClient, 0, Pending)
       /\ UNCHANGED redisDisabled

\* getReadOnlyRedisClient: it has no await, the caller resumes with its result
GetReadOnlyRedisClient(p, o) ==
  IF redisDisabled
  THEN /\ Finish(p, o, Degraded(o))
       /\ UNCHANGED <<readOnlyRedisClient, redisDisabled>>
  ELSE IF readOnlyRedisClient # NoClient
  THEN /\ Local(p, o, FirstReq(o), readOnlyRedisClient, 0, Pending)
       /\ UNCHANGED <<readOnlyRedisClient, redisDisabled>>
  ELSE IF ReadConfigMissing
  THEN /\ Finish(p, o, Degraded(o))
       /\ UNCHANGED <<readOnlyRedisClient, redisDisabled>>
  ELSE IF env.url = "invalid"
  THEN /\ readOnlyRedisClient' = NoClient
       /\ redisDisabled' = TRUE
       /\ Finish(p, o, Degraded(o))
  ELSE /\ readOnlyRedisClient' = ReadClient
       /\ Local(p, o, FirstReq(o), ReadClient, 0, Pending)
       /\ UNCHANGED redisDisabled

\* the context p is free and is given the call o(a)
Enter(p, o, a) ==
  /\ pc[p] = "idle"
  /\ op' = [op EXCEPT ![p] = o]
  /\ arg' = [arg EXCEPT ![p] = a]

\* addMessageToSession(sessionId, message) is called
addMessageToSession(p) ==
  \E s \in load.sessions :
    /\ nextMsg <= MaxHistory + MaxAppends
    /\ Enter(p, "append", s)
    /\ nextMsg' = nextMsg + 1
    /\ GetRedisClient(p, "append", s, nextMsg)
    /\ UNCHANGED <<readOnlyRedisClient, redisErrorLogged, env, load, ragVars, chatVars, store, console, last>>

\* DELETE /api/session/[sessionId] calls clearSession(sessionId)
clearSession(p) ==
  \E s \in load.sessions :
    /\ Enter(p, "clear", s)
    /\ GetRedisClient(p, "clear", s, 0)
    /\ UNCHANGED <<readOnlyRedisClient, redisErrorLogged, env, load, ragVars, chatVars, store, console, last, nextMsg>>

\* cacheSearchResults(query, results) is called
cacheSearchResults(p) ==
  \E q \in Queries, v \in Values :
    /\ load.cache
    /\ Enter(p, "cacheSet", q)
    /\ GetRedisClient(p, "cacheSet", q, v)
    /\ UNCHANGED <<readOnlyRedisClient, redisErrorLogged, env, load, ragVars, chatVars, store, console, last, nextMsg>>

\* getSessionHistory taking its client from getRedisClient
getSessionHistory_ThroughWriteClient(p) ==
  \E s \in load.sessions :
    /\ Enter(p, "read", s)
    /\ GetRedisClient(p, "read", s, 0)
    /\ UNCHANGED <<readOnlyRedisClient, redisErrorLogged, env, load, ragVars, chatVars, store, console, last, nextMsg>>

\* getSessionHistory(sessionId) is called
getSessionHistory(p) ==
  \E s \in load.sessions :
    /\ Enter(p, "read", s)
    /\ GetReadOnlyRedisClient(p, "read")
    /\ UNCHANGED <<redisClient, redisErrorLogged, env, load, ragVars, chatVars, store, console, last, nextMsg, pushed>>

\* getCachedSearchResults(query) is called
getCachedSearchResults(p) ==
  \E q \in Queries :
    /\ load.cache
    /\ Enter(p, "cacheGet", q)
    /\ GetReadOnlyRedisClient(p, "cacheGet")
    /\ UNCHANGED <<redisClient, redisErrorLogged, env, load, ragVars, chatVars, store, console, last, nextMsg, pushed>>

\* --------------------------------------------------------- the awaited steps
\* await redisClient.set("healthcheck", "ok") answers; getRedisClient returns
Probe(p) ==
  /\ pc[p] = "probe"
  /\ \E out \in Outcomes :
       /\ Sent(p, out)
       /\ IF out = "ok"
          THEN /\ healthcheck' = TRUE
               /\ UNCHANGED <<redisClient, redisDisabled, probeFailed>>
               /\ IF redisClient = NoClient
                  THEN /\ Finish(p, op[p], Degraded(op[p]))
                       /\ Dropped(op[p], arg[p])
                  ELSE /\ Local(p, op[p], FirstReq(op[p]), redisClient, msg[p], Pending)
                       /\ UNCHANGED pushed
          ELSE /\ redisClient' = NoClient
               /\ redisDisabled' = TRUE
               /\ probeFailed' = TRUE
               /\ Finish(p, op[p], Degraded(op[p]))
               /\ Dropped(op[p], arg[p])
               /\ UNCHANGED healthcheck
  /\ UNCHANGED <<readOnlyRedisClient, redisErrorLogged, env, load, ragVars, chatVars, lists, ttl, cache,
                 cacheTtl, warnCount,
                 op, arg, nextMsg>>

\* Rpush pushing at the head of the list (lpush)
Rpush_AtHead(p) ==
  /\ pc[p] = "rpush"
  /\ \E out \in Outcomes :
       /\ Sent(p, out)
       /\ IF out = "ok"
          THEN /\ lists' = [lists EXCEPT ![arg[p]] = <<JsonStringify(msg[p])>> \o @]
               /\ Pushed(arg[p], JsonStringify(msg[p]))
               /\ Goto(p, "expire")
          ELSE /\ Finish(p, "append", Void)
               /\ Dropped("append", arg[p])
               /\ UNCHANGED lists
  /\ UNCHANGED <<handles, env, load, ragVars, chatVars, ttl, cache, cacheTtl, healthcheck, console,
                 op, arg, nextMsg>>

\* await pushJson(client, historyKey, message) answers
Rpush(p) ==
  /\ pc[p] = "rpush"
  /\ \E out \in Outcomes :
       /\ Sent(p, out)
       /\ IF out = "ok"
          THEN /\ lists' = [lists EXCEPT ![arg[p]] = Append(@, JsonStringify(msg[p]))]
               /\ Pushed(arg[p], JsonStringify(msg[p]))
               /\ Goto(p, "expire")
          ELSE /\ Finish(p, "append", Void)
               /\ Dropped("append", arg[p])
               /\ UNCHANGED lists
  /\ UNCHANGED <<handles, env, load, ragVars, chatVars, ttl, cache, cacheTtl, healthcheck, console,
                 op, arg, nextMsg>>

\* Expire with a key that names every session instead of historyKey
Expire_EverySession(p) ==
  /\ pc[p] = "expire"
  /\ \E out \in Outcomes :
       /\ Sent(p, out)
       /\ IF out = "ok"
          THEN /\ ttl' = [s \in Sessions |-> SessionTTL]
               /\ Goto(p, "ltrim")
               /\ UNCHANGED pushed
          ELSE /\ Finish(p, "append", Void)
               /\ Dropped("append", arg[p])
               /\ UNCHANGED ttl
  /\ UNCHANGED <<handles, env, load, ragVars, chatVars, lists, cache, cacheTtl, healthcheck, console,
                 op, arg, nextMsg>>

\* await client.expire(historyKey, 24 * 60 * 60) answers
Expire(p) ==
  /\ pc[p] = "expire"
  /\ \E out \in Outcomes :
       /\ Sent(p, out)
       /\ IF out = "ok"
          THEN /\ ttl' = [ttl EXCEPT ![arg[p]] = IF lists[arg[p]] = <<>> THEN 0 ELSE SessionTTL]
               /\ Goto(p, "ltrim")
               /\ UNCHANGED pushed
          ELSE /\ Finish(p, "append", Void)
               /\ Dropped("append", arg[p])
               /\ UNCHANGED ttl
  /\ UNCHANGED <<handles, env, load, ragVars, chatVars, lists, cache, cacheTtl, healthcheck, console,
                 op, arg, nextMsg>>

\* await client.ltrim(historyKey, -50, -1) answers; addMessageToSession returns
Ltrim(p) ==
  /\ pc[p] = "ltrim"
  /\ \E out \in Outcomes :
       /\ Sent(p, out)
       /\ Finish(p, "append", Void)
       /\ IF out = "ok"
          THEN /\ lists' = [lists EXCEPT ![arg[p]] = LtrimLast(@, MaxHistory)]
               /\ UNCHANGED pushed
          ELSE /\ Dropped("append", arg[p])
               /\ UNCHANGED lists
  /\ UNCHANGED <<handles, env, load, ragVars, chatVars, ttl, cache, cacheTtl, healthcheck, console,
                 op, arg, nextMsg>>

\* Del reporting a failed delete to the caller
Del_ReportsFailure(p) ==
  /\ pc[p] = "del"
  /\ \E out \in Outcomes :
       /\ Sent(p, out)
       /\ Finish(p, "clear", IF out = "ok" THEN True ELSE False)
       /\ IF out = "ok"
          THEN /\ lists' = [lists EXCEPT ![arg[p]] = <<>>]
               /\ ttl' = [ttl EXCEPT ![arg[p]] = 0]
               /\ pushed' = [pushed EXCEPT ![arg[p]] = <<>>]
          ELSE UNCHANGED <<lists, ttl, pushed>>
  /\ UNCHANGED <<handles, env, load, ragVars, chatVars, cache, cacheTtl, healthcheck, console, op, arg, nextMsg>>

\* await client.del(historyKey) answers; clearSession returns true either way
Del(p) ==
  /\ pc[p] = "del"
  /\ \E out \in Outcomes :
       /\ Sent(p, out)
       /\ Finish(p, "clear", True)
       /\ IF out = "ok"
          THEN /\ lists' = [lists EXCEPT ![arg[p]] = <<>>]
               /\ ttl' = [ttl EXCEPT ![arg[p]] = 0]
               /\ pushed' = [pushed EXCEPT ![arg[p]] = <<>>]
          ELSE UNCHANGED <<lists, ttl, pushed>>
  /\ UNCHANGED <<handles, env, load, ragVars, chatVars, cache, cacheTtl, healthcheck, console, op, arg, nextMsg>>

\* await setJson(client, cacheKey, results, ttl) answers; cacheSearchResults returns
Setex(p) ==
  /\ pc[p] = "setex"
  /\ \E out \in Outcomes :
       /\ Sent(p, out)
       /\ Finish(p, "cacheSet", Void)
       /\ cache' = IF out = "ok" THEN [cache EXCEPT ![arg[p]] = JsonStringify(msg[p])]
                   ELSE cache
       /\ cacheTtl' = IF out = "ok" THEN [cacheTtl EXCEPT ![arg[p]] = CacheTTL]
                      ELSE cacheTtl
       /\ IF out = "auth"
          THEN /\ redisDisabled' = TRUE
               /\ redisClient' = NoClient
               /\ WarnOnce
          ELSE UNCHANGED <<redisDisabled, redisClient, warnCount, redisErrorLogged>>
  /\ UNCHANGED <<readOnlyRedisClient, env, load, ragVars, chatVars, lists, ttl, healthcheck, probeFailed,
                 op, arg, nextMsg, pushed>>

\* Lrange letting a failed request propagate to the caller
Lrange_Rethrows(p) ==
  /\ pc[p] = "lrange"
  /\ \E out \in Outcomes :
       /\ Sent(p, out)
       /\ Finish(p, "read", IF out = "ok" THEN List(MapParseFilter(LrangeReply(lists[arg[p]])))
                            ELSE Throws)
  /\ UNCHANGED <<handles, env, load, ragVars, chatVars, store, console, op, arg, nextMsg, pushed>>

\* await client.lrange(historyKey, 0, -1) answers; getSessionHistory returns
Lrange(p) ==
  /\ pc[p] = "lrange"
  /\ \E out \in Outcomes :
       /\ Sent(p, out)
       /\ Finish(p, "read", IF out = "ok" THEN List(MapParseFilter(LrangeReply(lists[arg[p]])))
                            ELSE List(<<>>))
  /\ UNCHANGED <<handles, env, load, ragVars, chatVars, store, console, op, arg, nextMsg, pushed>>

\* GetJson without the try/catch around JSON.parse
GetJson_NoCatch(value) ==
  IF value = <<>> THEN Null
  ELSE IF Parses(AsString(value)) THEN Value(JsonParse(AsString(value))) ELSE Throws

\* getJson's result for the reply `value` of client.get(key):
\* if (!value) return null; try JSON.parse(value as string) catch null
GetJson(value) ==
  IF value = <<>> THEN Null
  ELSE IF Parses(AsString(value)) THEN Value(JsonParse(AsString(value))) ELSE Null

\* await getJson(client, cacheKey) answers; getCachedSearchResults returns
Get(p) ==
  /\ pc[p] = "get"
  /\ \E out \in Outcomes :
       /\ Sent(p, out)
       /\ Finish(p, "cacheGet", IF out = "ok" THEN GetJson(GetReply(cache[arg[p]])) ELSE Null)
       /\ IF out = "auth"
          THEN /\ redisDisabled' = TRUE
               /\ readOnlyRedisClient' = NoClient
               /\ WarnOnce
          ELSE UNCHANGED <<redisDisabled, readOnlyRedisClient, warnCount, redisErrorLogged>>
  /\ UNCHANGED <<redisClient, env, load, ragVars, chatVars, store, probeFailed, op, arg, nextMsg, pushed>>

\* the store drops the cache entry of q once the ttl given to setex has elapsed
CacheExpires(q) ==
  /\ load.cache
  /\ cacheTtl[q] = CacheTTL
  /\ cache' = [cache EXCEPT ![q] = <<>>]
  /\ cacheTtl' = [cacheTtl EXCEPT ![q] = 0]
  /\ UNCHANGED <<handles, env, load, ragVars, chatVars, lists, ttl, healthcheck, console,
                 pc, op, arg, msg, client, result, http, last, nextMsg, pushed>>

\* the context p is free for the next call
Released(p) ==
  /\ op' = [op EXCEPT ![p] = "-"]
  /\ arg' = [arg EXCEPT ![p] = "-"]
  /\ last' = [last EXCEPT ![p] = "none"]
  /\ Local(p, "-", "idle", NoClient, 0, Pending)

\* the caller has taken the result; the context is free for the next call
Return(p) ==
  /\ pc[p] = "done"
  /\ Released(p)
  /\ UNCHANGED <<handles, env, load, ragVars, chatVars, store, console, nextMsg, pushed>>

Next ==
  \/ \E q \in Queries : CacheExpires(q)
  \/ \E p \in Procs :
    \/ addMessageToSession(p)
    \/ clearSession(p)
    \/ cacheSearchResults(p)
    \/ getSessionHistory(p)
    \/ getCachedSearchResults(p)
    \/ Probe(p)
    \/ Rpush(p)
    \/ Expire(p)
    \/ Ltrim(p)
    \/ Del(p)
    \/ Setex(p)
    \/ Lrange(p)
    \/ Get(p)
    \/ Return(p)

TypeOK ==
  /\ redisClient \in {NoClient, WriteClient}
  /\ readOnlyRedisClient \in {NoClient, ReadClient}
  /\ redisDisabled \in BOOLEAN
  /\ redisErrorLogged \in BOOLEAN
  /\ warnCount \in Nat
  /\ \A p \in Procs : client[p] \in {NoClient, WriteClient, ReadClient}
  /\ \A p \in Procs : last[p] \in {"none"} \cup Outcomes
  /\ nextMsg \in (MaxHistory + 1)..(MaxHistory + MaxAppends + 1)

\* ------------------------------------------------------------------ strings
Whitespace == {" "}

\* text.toLowerCase()
LowerChar(c) == IF c = "C" THEN "c" ELSE c
ToLowerCase(s) == [i \in 1..Len(s) |-> LowerChar(s[i])]

RECURSIVE SplitFrom(_, _, _)
\* the words of s from position i on, `word` being the word read so far; a run
\* of whitespace ends a word, so leading or trailing whitespace gives ""
SplitFrom(s, i, word) ==
  IF i > Len(s) THEN <<word>>
  ELSE IF s[i] \in Whitespace
       THEN IF i > 1 /\ s[i - 1] \in Whitespace
            THEN SplitFrom(s, i + 1, word)
            ELSE <<word>> \o SplitFrom(s, i + 1, <<>>)
       ELSE SplitFrom(s, i + 1, Append(word, s[i]))

\* s.split(/\s+/)
Split(s) == SplitFrom(s, 1, <<>>)

\* w.includes(sub)
Includes(w, sub) ==
  \E i \in 0..(Len(w) - Len(sub)) : SubSeq(w, i + 1, i + Len(sub)) = sub

\* `${a}${sep}${b}`
Concat(a, sep, b) == a \o sep \o b

\* -------------------------------------------------------------- arithmetic
IsNaN(x) == x = NaN

\* a / b rounded to the nearest integer, for b > 0
RoundDiv(a, b) ==
  IF a >= 0 THEN (2 * a + b) \div (2 * b) ELSE 0 - ((2 * (0 - a) + b) \div (2 * b))

RECURSIVE FloorSqrt(_, _, _)
\* the largest r in lo..hi with r * r <= x
FloorSqrt(x, lo, hi) ==
  IF lo = hi THEN lo
  ELSE LET mid == (lo + hi + 1) \div 2
       IN IF mid * mid <= x THEN FloorSqrt(x, mid, hi) ELSE FloorSqrt(x, lo, mid - 1)

\* Math.sqrt(n) for an integer n >= 0, as a count of 1/Scale
Sqrt(n) ==
  LET x == n * Scale * Scale
      r == FloorSqrt(x, 0, (n + 1) * Scale)
  IN IF x - r * r > r THEN r + 1 ELSE r

\* the product and the quotient of two counts
Mul(a, b) == RoundDiv(a * b, Scale)
Div(a, b) == IF b > 0 THEN RoundDiv(a * Scale, b) ELSE 0 - RoundDiv(a * Scale, 0 - b)

Max(a, b) == IF a >= b THEN a ELSE b
\* Math.min(a, b): NaN if either is NaN
Min(a, b) == IF IsNaN(a) \/ IsNaN(b) THEN NaN ELSE IF a <= b THEN a ELSE b

RECURSIVE Dot(_, _)
\* vecA.reduce((sum, a, i) => sum + a * vecB[i], 0), for vectors of one length
Dot(a, b) == IF a = <<>> THEN 0 ELSE Head(a) * Head(b) + Dot(Tail(a), Tail(b))

\* ------------------------------------------------------ embedding provider
\* `embedding:${base64(text).substring(0, 50)}`: base64 is one-to-one, so the
\* key names the first characters of the text
CacheKey(text) == SubSeq(text, 1, IF Len(text) < KeyPrefix THEN Len(text) ELSE KeyPrefix)
CacheKeys == { CacheKey(t) : t \in Texts }

\* createDeterministicEmbedding(text): it reads nothing but its argument; its
\* hash and sine arithmetic is not reproduced, the vector of each text is listed
createDeterministicEmbedding(text) ==
  CASE text = <<"C">> -> <<1, 0>>
    [] text = <<>> -> <<0, 1>>
    [] OTHER -> <<1, 1>>

\* data.data[0].embedding of the provider's answer for input [text]
ProviderEmbedding(text) ==
  CASE text = <<"C">> -> <<1, 1>>
    [] text = <<>> -> <<1, 0>>
    [] OTHER -> <<0, 1>>

\* the value `undefined` where a vector is expected
Undefined == <<NaN>>

\* the answers of the provider: a vector for the text; a failed request or a
\* non-ok status; an answer whose data is empty; an answer whose first item
\* carries no embedding
FetchOutcomes == {"ok", "fail", "empty", "noEmbedding"}

\* ------------------------------------------------------------ vector store
\* cosineSimilarity(vecA, vecB)
cosineSimilarity(vecA, vecB) ==
  IF Len(vecA) # Len(vecB) THEN 0
  ELSE LET dotProduct == Dot(vecA, vecB) * Scale
           magnitudeA == Sqrt(Dot(vecA, vecA))
           magnitudeB == Sqrt(Dot(vecB, vecB))
       IN IF magnitudeA = 0 \/ magnitudeB = 0 THEN 0
          ELSE Div(dotProduct, Mul(magnitudeA, magnitudeB))

\* queryWords.filter(word => titleWords.some(titleWord => titleWord.includes(word)))
TitleMatches(queryWords, titleWords) ==
  { i \in 1..Len(queryWords) :
      \E j \in 1..Len(titleWords) : Includes(titleWords[j], queryWords[i]) }

\* calculateRelevanceScore without the title term
calculateRelevanceScore_NoTitle(chunk, q, similarity) ==
  LET daysDiff == chunk.pubDate
      recencyScore == IF IsNaN(daysDiff) THEN NaN
                      ELSE Max(0, Scale - RoundDiv(daysDiff * Scale, RecencyDays))
      score == IF IsNaN(recencyScore) THEN NaN
               ELSE Mul(similarity, SimilarityWeight) + Mul(recencyScore, RecencyWeight)
  IN Min(score, Scale)

\* calculateRelevanceScore(chunk, query, similarity); chunk.pubDate is the
\* number of days from the publish date to now, NaN for an unparsable date
calculateRelevanceScore(chunk, q, similarity) ==
  LET daysDiff == chunk.pubDate
      recencyScore == IF IsNaN(daysDiff) THEN NaN
                      ELSE Max(0, Scale - RoundDiv(daysDiff * Scale, RecencyDays))
      queryWords == Split(ToLowerCase(q))
      titleWords == Split(ToLowerCase(chunk.title))
      titleMatches == TitleMatches(queryWords, titleWords)
      titleScore == RoundDiv(Cardinality(titleMatches) * Scale, Len(queryWords))
      score == IF IsNaN(recencyScore) THEN NaN
               ELSE Mul(similarity, SimilarityWeight) + Mul(recencyScore, RecencyWeight)
                      + Mul(titleScore, TitleWeight)
  IN Min(score, Scale)

\* chunks.map(chunk => ({ ...chunk, similarity, relevanceScore }))
Scored(chunks, q, queryEmbedding) ==
  [i \in 1..Len(chunks) |->
     LET similarity == cosineSimilarity(queryEmbedding, chunks[i].embedding)
     IN [id |-> i, source |-> chunks[i].source, title |-> chunks[i].title,
         similarity |-> similarity,
         relevanceScore |-> calculateRelevanceScore(chunks[i], q, similarity)]]

RECURSIVE Insert(_, _)
\* r put into the sorted list l behind every element that does not rank below it
Insert(r, l) ==
  IF l = <<>> THEN <<r>>
  ELSE IF Head(l).relevanceScore >= r.relevanceScore
       THEN <<Head(l)>> \o Insert(r, Tail(l))
       ELSE <<r>> \o l

RECURSIVE StableSort(_)
\* l in descending relevance, equal elements in their order in l
StableSort(l) ==
  IF l = <<>> THEN <<>> ELSE Insert(l[Len(l)], StableSort(SubSeq(l, 1, Len(l) - 1)))

Orders(n) == { f \in [1..n -> 1..n] : \A i, j \in 1..n : i # j => f[i] # f[j] }

\* results.sort((a, b) => b.relevanceScore - a.relevanceScore): a stable sort;
\* with a NaN score the comparison is not consistent and the order is whatever
\* the implementation produces
Sort(l) ==
  IF \E i \in 1..Len(l) : IsNaN(l[i].relevanceScore)
  THEN { [i \in 1..Len(l) |-> l[f[i]]] : f \in Orders(Len(l)) }
  ELSE { StableSort(l) }

\* l.slice(0, n)
Slice(l, n) == SubSeq(l, 1, IF Len(l) < n THEN Len(l) ELSE n)

\* l.filter(result => result.similarity > 0.1)
FilterSimilar(l) == SelectSeq(l, LAMBDA r : r.similarity > MinSimilarity)

\* the values results.sort(...).slice(0, topK).filter(...) can have
SearchResults(l, k) == { FilterSimilar(Slice(sorted, k)) : sorted \in Sort(l) }

RECURSIVE FirstSeen(_)
\* the distinct elements of l in the order of their first occurrence: the key
\* order of a Map, and Array.from(new Set(l))
FirstSeen(l) ==
  IF l = <<>> THEN <<>>
  ELSE LET rest == FirstSeen(SubSeq(l, 1, Len(l) - 1))
           x == l[Len(l)]
       IN IF \E i \in 1..Len(rest) : rest[i] = x THEN rest ELSE Append(rest, x)

\* `${chunk.metadata.source}-${chunk.metadata.title}`
ArticleKey(r) == Concat(r.source, <<"-">>, r.title)

\* `${primaryChunk.metadata.source} - ${primaryChunk.metadata.title}`
SourceLine(r) == Concat(r.source, <<" ", "-", " ">>, r.title)

\* articleGroups: the keys in insertion order, and the chunks under a key
ArticleKeys(similarChunks) ==
  FirstSeen([i \in 1..Len(similarChunks) |-> ArticleKey(similarChunks[i])])
ArticleGroup(similarChunks, key) ==
  SelectSeq(similarChunks, LAMBDA r : ArticleKey(r) = key)

RECURSIVE SumRelevance(_)
\* similarChunks.reduce((sum, chunk) => sum + chunk.relevanceScore, 0)
SumRelevance(l) ==
  IF l = <<>> THEN 0
  ELSE LET rest == SumRelevance(Tail(l))
       IN IF IsNaN(rest) \/ IsNaN(Head(l).relevanceScore) THEN NaN
          ELSE Head(l).relevanceScore + rest

NoContext ==
  [context |-> [text |-> "-", parts |-> <<>>], sources |-> <<>>, chunks |-> <<>>,
   summary |-> [text |-> "-", passages |-> 0, articles |-> 0, avgRelevance |-> 0]]

\* RAGContext without the test for an empty search result
RAGContext_NoEmptyTest(similarChunks) ==
  LET keys == ArticleKeys(similarChunks)
      primaryChunk(g) == ArticleGroup(similarChunks, keys[g])[1]
      sum == SumRelevance(similarChunks)
  IN [context |-> [text |-> "articles", parts |-> <<>>],
      sources |-> FirstSeen([g \in 1..Len(keys) |-> SourceLine(primaryChunk(g))]),
      chunks |-> similarChunks,
      summary |-> [text |-> "found", passages |-> Len(similarChunks),
                   articles |-> Len(keys),
                   avgRelevance |-> IF IsNaN(sum) \/ Len(similarChunks) = 0 THEN NaN
                                    ELSE RoundDiv(sum, Len(similarChunks))]]

\* what getRAGContext returns for the search result similarChunks; the context
\* is the fixed sentence or the parts joined by the delimiter, one part a group
RAGContext(similarChunks) ==
  IF Len(similarChunks) = 0
  THEN [context |-> [text |-> NoInfoContext, parts |-> <<>>],
        sources |-> <<>>,
        chunks |-> <<>>,
        summary |-> [text |-> NoInfoSummary, passages |-> 0, articles |-> 0,
                     avgRelevance |-> 0]]
  ELSE LET keys == ArticleKeys(similarChunks)
           primaryChunk(g) == ArticleGroup(similarChunks, keys[g])[1]
           articleText(g) ==
             LET chunks == ArticleGroup(similarChunks, keys[g])
             IN [i \in 1..Len(chunks) |-> chunks[i].id]
           contextParts ==
             [g \in 1..Len(keys) |->
                [title |-> primaryChunk(g).title, source |-> primaryChunk(g).source,
                 content |-> articleText(g), relevance |-> primaryChunk(g).relevanceScore]]
           sources == [g \in 1..Len(keys) |-> SourceLine(primaryChunk(g))]
           sum == SumRelevance(similarChunks)
           avgRelevance == IF IsNaN(sum) THEN NaN ELSE RoundDiv(sum, Len(similarChunks))
       IN [context |-> [text |-> "articles", parts |-> contextParts],
           sources |-> FirstSeen(sources),
           chunks |-> similarChunks,
           summary |-> [text |-> "found", passages |-> Len(similarChunks),
                        articles |-> Len(keys), avgRelevance |-> avgRelevance]]

\* ------------------------------------------------------------ the corpus
Chunk(e, d, s, t) == [embedding |-> e, pubDate |-> d, source |-> s, title |-> t]

\* the chunks a corpus is made of: published today, 60 days ago, 15 days
\* ahead, or with an unparsable date; of the articles "a"/"c", "a"/"d",
\* "a-b"/"c" and "a"/"b-c"
Catalogue ==
  { Chunk(<<1, 0>>, 0, <<"a">>, <<"c">>),
    Chunk(<<1, 0>>, 0, <<"a">>, <<"d">>),
    Chunk(<<1, 0>>, 0 - 15, <<"a">>, <<"c">>),
    Chunk(<<1, 0>>, 0 - 15, <<"a">>, <<"d">>),
    Chunk(<<0, 1>>, 0, <<"a", "-", "b">>, <<"c">>),
    Chunk(<<1, 3>>, 60, <<"a">>, <<"b", "-", "c">>),
    Chunk(<<1, 3>>, 60, <<"a">>, <<"d">>),
    Chunk(<<0 - 1, 0>>, 60, <<"a">>, <<"d">>),
    Chunk(<<1, 0>>, NaN, <<"a">>, <<"c">>),
    Chunk(<<0, 0>>, 0, <<"a">>, <<"c">>),
    Chunk(<<1>>, 0, <<"a">>, <<"c">>),
    Chunk(<<1, 1>>, 0, <<"a">>, <<"c">>),
    \* a record without embedding
    Chunk(Undefined, 0, <<"a">>, <<"c">>) }

Corpora == UNION { [1..n -> Catalogue] : n \in 0..MaxChunks }

\* data/embedded_chunks.json: a JSON array of the chunks; no file; or a text
\* that holds the chunk and one more record that is not JSON
NoFile == [kind |-> "missing", chunks |-> <<>>]
Files ==
  { [kind |-> "json", chunks |-> c] : c \in Corpora }
    \cup {NoFile}
    \cup { [kind |-> "notJson", chunks |-> c] : c \in { d \in Corpora : Len(d) = 1 } }

\* ------------------------------------------------------------- the calls
NoVector == <<>>

\* no vector-store call has been made: nothing loaded, nothing cached
RagInit(f, key) ==
  /\ file = f
  /\ fileReads = 0
  /\ embeddedChunks = [loaded |-> FALSE, chunks |-> <<>>]
  /\ embeddedWarningLogged = FALSE
  /\ jinaApiKey = key
  /\ embeddingCache = [k \in CacheKeys |-> NoVector]
  /\ rpc = "idle"
  /\ fn = "-"
  /\ query = <<>>
  /\ topK = 0
  /\ embedding = NoVector
  /\ results = <<>>
  /\ topResults = <<>>
  /\ ragContext = NoContext
  /\ embedCalls = 0
  /\ texts = <<>>
  /\ vectors = <<>>
  /\ lastEmbedding = [t \in Texts |-> NoVector]

\* loadEmbeddedChunks() without the test of embeddedChunks: it reads the file
\* on every call
LoadEmbeddedChunks_NoCacheTest ==
  IF file.kind = "json"
  THEN [embeddedChunks |-> [loaded |-> TRUE, chunks |-> file.chunks],
        returned |-> file.chunks,
        fileReads |-> fileReads + 1,
        embeddedWarningLogged |-> embeddedWarningLogged]
  ELSE [embeddedChunks |-> embeddedChunks,
        returned |-> <<>>,
        fileReads |-> fileReads + 1,
        embeddedWarningLogged |-> TRUE]

\* loadEmbeddedChunks(): the value returned and the module variables after
\* the call.  The chunks in memory are returned; else the file is read and
\* parsed as a whole; readFileSync or JSON.parse throwing gives [] and leaves
\* embeddedChunks null
LoadEmbeddedChunks ==
  IF embeddedChunks.loaded
  THEN [embeddedChunks |-> embeddedChunks,
        returned |-> embeddedChunks.chunks,
        fileReads |-> fileReads,
        embeddedWarningLogged |-> embeddedWarningLogged]
  ELSE IF file.kind = "json"
  THEN [embeddedChunks |-> [loaded |-> TRUE, chunks |-> file.chunks],
        returned |-> file.chunks,
        fileReads |-> fileReads + 1,
        embeddedWarningLogged |-> embeddedWarningLogged]
  ELSE [embeddedChunks |-> embeddedChunks,
        returned |-> <<>>,
        fileReads |-> fileReads + 1,
        embeddedWarningLogged |-> TRUE]

\* CreateEmbedding without the test of JINA_API_KEY: the request is always sent
CreateEmbedding_NoKeyTest(text, back) ==
  /\ embedCalls' = embedCalls + 1
  /\ UNCHANGED embeddingCache
  /\ IF embeddingCache[CacheKey(text)] # NoVector
     THEN /\ embedding' = embeddingCache[CacheKey(text)]
          /\ rpc' = back
     ELSE /\ embedding' = NoVector
          /\ rpc' = "fetch"

\* createEmbedding(text) up to its first await, or to its return when it has
\* none: the cached vector, the fallback when no key is set, or the request
CreateEmbedding(text, back) ==
  /\ embedCalls' = embedCalls + 1
  /\ UNCHANGED embeddingCache
  /\ IF embeddingCache[CacheKey(text)] # NoVector
     THEN /\ embedding' = embeddingCache[CacheKey(text)]
          /\ rpc' = back
     ELSE IF ~jinaApiKey
     THEN /\ embedding' = createDeterministicEmbedding(text)
          /\ rpc' = back
     ELSE /\ embedding' = NoVector
          /\ rpc' = "fetch"

\* searchSimilarChunks(query, topK), called by getRAGContext (f = "context") or
\* on its own, loads the chunks and, unless there are none, embeds the query
SearchEntry(f, q, k) ==
  /\ rpc = "idle"
  /\ query' = q
  /\ topK' = k
  /\ LoadEmbeddedChunks.fileReads <= MaxReads
  /\ embeddedChunks' = LoadEmbeddedChunks.embeddedChunks
  /\ fileReads' = LoadEmbeddedChunks.fileReads
  /\ embeddedWarningLogged' = LoadEmbeddedChunks.embeddedWarningLogged
  /\ IF Len(LoadEmbeddedChunks.returned) = 0
     THEN /\ rpc' = IF f = "search" THEN "done" ELSE "searched"
          /\ UNCHANGED <<embedding, embedCalls, embeddingCache>>
     ELSE CreateEmbedding(q, "embedded")
  /\ UNCHANGED <<batchVars, file, jinaApiKey, results, topResults, ragContext, lastEmbedding>>

\* searchSimilarChunks(query, topK) is called
searchSimilarChunks ==
  \E q \in Texts, k \in TopKs :
    /\ fn' = "search"
    /\ SearchEntry("search", q, k)
    /\ UNCHANGED <<redisVars, chatVars>>

\* getRAGContext(query, topK) is called and calls searchSimilarChunks
getRAGContext ==
  \E q \in Texts, k \in TopKs :
    /\ fn' = "context"
    /\ SearchEntry("context", q, k)
    /\ UNCHANGED <<redisVars, chatVars>>

\* createEmbedding(text) is called on its own
createEmbedding ==
  \E t \in Texts :
    /\ rpc = "idle"
    /\ fn' = "embed"
    /\ query' = t
    /\ CreateEmbedding(t, "embedded")
    /\ UNCHANGED <<redisVars, chatVars, loadVars, batchVars, file, embeddedChunks, jinaApiKey, topK, results, topResults,
                   ragContext, lastEmbedding>>

\* await fetch(JINA_API_URL, ...) and await response.json() answer: the first
\* item's embedding is cached and returned; a failed request, a non-ok
\* response or an answer without data ends in the fallback
Fetch ==
  /\ rpc = "fetch"
  /\ \E out \in FetchOutcomes :
       CASE out = "ok" ->
              /\ embedding' = ProviderEmbedding(query)
              /\ embeddingCache' = [embeddingCache EXCEPT ![CacheKey(query)] =
                                      ProviderEmbedding(query)]
         [] out = "noEmbedding" ->
              \* embeddingCache.set(cacheKey, undefined), then embedding.length
              \* throws and the catch returns the fallback
              /\ embedding' = createDeterministicEmbedding(query)
              /\ embeddingCache' = [embeddingCache EXCEPT ![CacheKey(query)] = Undefined]
         [] OTHER ->
              /\ embedding' = createDeterministicEmbedding(query)
              /\ UNCHANGED embeddingCache
  /\ rpc' = "embedded"
  /\ UNCHANGED <<redisVars, chatVars, loadVars, batchVars, file, embeddedChunks, jinaApiKey, fn, query, topK, results,
                 topResults, ragContext, embedCalls, lastEmbedding>>

\* texts.map(createDeterministicEmbedding)
Fallbacks(ts) == [i \in 1..Len(ts) |-> createDeterministicEmbedding(ts[i])]

\* the answers of the provider to a batch: an item per text; a failed request
\* or a non-ok status; fewer items than texts; an item without embedding
BatchOutcomes == {"ok", "fail", "short", "noEmbedding"}

\* data.data.map((item) => item.embedding) of the provider's answer
BatchAnswer(ts, out) ==
  CASE out = "ok" -> [i \in 1..Len(ts) |-> ProviderEmbedding(ts[i])]
    [] out = "short" -> [i \in 1..(Len(ts) - 1) |-> ProviderEmbedding(ts[i])]
    [] out = "noEmbedding" ->
         [i \in 1..Len(ts) |-> IF i = Len(ts) THEN Undefined ELSE ProviderEmbedding(ts[i])]

\* createBatchEmbeddings(texts) is called: the fallbacks when no key is set,
\* or one request for all the texts
createBatchEmbeddings ==
  \E ts \in Batches :
    /\ rpc = "idle"
    /\ fn' = "batch"
    /\ texts' = ts
    /\ IF ~jinaApiKey
       THEN /\ vectors' = Fallbacks(ts)
            /\ rpc' = "done"
       ELSE /\ vectors' = <<>>
            /\ rpc' = "batchFetch"
    /\ UNCHANGED <<redisVars, chatVars, loadVars, file, embeddedChunks, jinaApiKey, embeddingCache, query, topK,
                   embedding, results, topResults, ragContext, embedCalls, lastEmbedding>>

\* await fetch(JINA_API_URL, ...) and await response.json() answer the batch:
\* the embeddings of the items as they came, or the fallbacks after an error
BatchFetch ==
  /\ rpc = "batchFetch"
  /\ \E out \in BatchOutcomes :
       /\ out \in {"short", "noEmbedding"} => Len(texts) > 0
       /\ vectors' = IF out = "fail" THEN Fallbacks(texts) ELSE BatchAnswer(texts, out)
  /\ rpc' = "done"
  /\ UNCHANGED <<redisVars, chatVars, loadVars, file, embeddedChunks, jinaApiKey, embeddingCache, fn, query, topK,
                 embedding, results, topResults, ragContext, embedCalls, texts, lastEmbedding>>

\* the caller of createEmbedding resumes with the vector
EmbeddingReturned ==
  /\ rpc = "embedded"
  /\ fn = "embed"
  /\ rpc' = "done"
  /\ lastEmbedding' = [lastEmbedding EXCEPT ![query] = embedding]
  /\ UNCHANGED <<redisVars, chatVars, loadVars, batchVars, file, embeddedChunks, jinaApiKey, embeddingCache, fn, query, topK,
                 embedding, results, topResults, ragContext, embedCalls>>

\* searchSimilarChunks resumes with the query embedding: it scores, sorts,
\* slices, filters and returns
Rank ==
  /\ rpc = "embedded"
  /\ fn \in {"search", "context"}
  /\ IF \/ embedding = Undefined
        \/ \E i \in 1..Len(embeddedChunks.chunks) :
             embeddedChunks.chunks[i].embedding = Undefined
     THEN \* vecA.length or vecB.length of undefined: the TypeError leaves
          \* both functions
          /\ rpc' = "threw"
          /\ UNCHANGED <<results, topResults>>
     ELSE /\ results' = Scored(embeddedChunks.chunks, query, embedding)
          /\ topResults' \in SearchResults(results', topK)
          /\ rpc' = IF fn = "search" THEN "done" ELSE "searched"
  /\ UNCHANGED <<redisVars, chatVars, loadVars, batchVars, file, embeddedChunks, jinaApiKey, embeddingCache, fn, query, topK,
                 embedding, ragContext, embedCalls, lastEmbedding>>

\* getRAGContext resumes with the search result and returns
BuildContext ==
  /\ rpc = "searched"
  /\ ragContext' = RAGContext(topResults)
  /\ rpc' = "done"
  /\ UNCHANGED <<redisVars, chatVars, loadVars, batchVars, file, embeddedChunks, jinaApiKey, embeddingCache, fn, query, topK,
                 embedding, results, topResults, embedCalls, lastEmbedding>>

\* the locals of a vector-store call that has ended
RagReset ==
  /\ rpc' = "idle"
  /\ fn' = "-"
  /\ query' = <<>>
  /\ topK' = 0
  /\ embedding' = NoVector
  /\ results' = <<>>
  /\ topResults' = <<>>
  /\ ragContext' = NoContext
  /\ embedCalls' = 0
  /\ texts' = <<>>
  /\ vectors' = <<>>

\* the caller has taken the result, or the error
RagReturn ==
  /\ rpc \in {"done", "threw"}
  /\ RagReset
  /\ UNCHANGED <<redisVars, chatVars, loadVars, file, embeddedChunks, jinaApiKey, embeddingCache,
                 lastEmbedding>>

\* no chat request has been received
NoChat == [at |-> "idle", calls |-> <<>>, hit |-> FALSE, cachedResults |-> Null,
           response |-> "-", status |-> 0, cached |-> FALSE]
NoKey == [of |-> "none", text |-> <<>>, key |-> <<>>]
KeyInit == keyed = [last |-> NoKey, prev |-> NoKey]
\* the setup script not run
SetupIdle ==
  setup = [at |-> "idle", chunks |-> 0, i |-> 0, retries |-> 0, success |-> FALSE,
           embeddedChunks |-> <<>>, written |-> FALSE, attempts |-> 0]
\* no chat page open
ClientIdle ==
  /\ ui = [sessionId |-> 0, messages |-> <<>>, isLoading |-> FALSE,
           isLoadingHistory |-> FALSE, posting |-> 0, loading |-> {}, resetting |-> 0,
           nextId |-> 1, submits |-> 0, listed |-> {}, served |-> {}]
  /\ localStorage = <<>>
RouteInit == chat = NoChat /\ chats = 0
ChatInit == RouteInit /\ KeyInit /\ SetupIdle /\ ClientIdle

\* the key/value layer at rest
StoreAtRest ==
  /\ RedisInit
  /\ redisDisabled
  /\ env = [url |-> "missing", token |-> TRUE, roToken |-> TRUE]
  /\ load = [sessions |-> {"s1"}, cache |-> TRUE]
RedisAtRest == StoreAtRest /\ ChatInit

VecInit ==
  /\ RedisAtRest
  /\ \E f \in Files, key \in BOOLEAN : RagInit(f, key)

VecNext ==
  \/ searchSimilarChunks
  \/ getRAGContext
  \/ Fetch
  \/ Rank
  \/ BuildContext
  \/ RagReturn

\* searches and context requests over every corpus
VecSpec == VecInit /\ [][VecNext]_vars

EmbedInit ==
  /\ RedisAtRest
  /\ \E key \in BOOLEAN : RagInit(NoFile, key)

EmbedNext ==
  \/ createEmbedding
  \/ createBatchEmbeddings
  \/ BatchFetch
  \/ Fetch
  \/ EmbeddingReturned
  \/ RagReturn

\* embedding requests only
EmbedSpec == EmbedInit /\ [][EmbedNext]_vars

\* ------------------------------------------------------- the chat route
\* POST /api/chat (src/README.md): one request at a time, its calls to the
\* key/value layer made in context P.  Each action is the code of the route
\* from one await to the next, with the called function up to its first await.
MaxChats == 2          \* chat requests received

P == "p1"
ChatSession == "s1"    \* sessionId of the requests
ChatQuery == "q1"      \* message of the requests, as a cache key
ChatText == <<"C">>    \* message of the requests, as a text
ChatTopK == 5          \* getRAGContext(message, 5)
ChatResults == 1       \* { context: ragContext, sources: sources }

\* the route is at position l after calling c
ChatAt(l, c) == chat' = [chat EXCEPT !.at = l, !.calls = Append(@, c)]

\* the route answers
Responded(status, cached) ==
  chat' = [chat EXCEPT !.at = "responded", !.status = status, !.cached = cached]

\* an awaited call of the key/value layer has returned and the route calls o(a)
Resume(p, o, a) ==
  /\ pc[p] = "done"
  /\ op' = [op EXCEPT ![p] = o]
  /\ arg' = [arg EXCEPT ![p] = a]
  /\ last' = [last EXCEPT ![p] = "none"]

\* await getSessionHistory(sessionId) is reached
CallGetSessionHistory ==
  /\ Resume(P, "read", ChatSession)
  /\ GetReadOnlyRedisClient(P, "read")
  /\ ChatAt("history", "getSessionHistory")
  /\ UNCHANGED <<redisClient, redisErrorLogged, env, load, ragVars, store, console, nextMsg,
                 pushed, chats, keyVars, setupVars, clientVars>>

\* await addMessageToSession(sessionId, message) is reached
CallAddMessageToSession(l) ==
  /\ Resume(P, "append", ChatSession)
  /\ nextMsg' = nextMsg + 1
  /\ GetRedisClient(P, "append", ChatSession, nextMsg)
  /\ UNCHANGED <<readOnlyRedisClient, redisErrorLogged, env, load, ragVars, store, console,
                 chats, keyVars, setupVars, clientVars>>

\* a request arrives: 400 without message or sessionId, else the route runs up
\* to await getCachedSearchResults(message)
POST ==
  /\ chat.at \in {"idle", "responded"}
  /\ chats < MaxChats
  /\ chats' = chats + 1
  /\ UNCHANGED <<keyVars, setupVars, clientVars>>
  /\ \E valid \in BOOLEAN :
       IF ~valid
       THEN /\ chat' = [NoChat EXCEPT !.at = "responded", !.status = 400]
            /\ UNCHANGED <<redisVars, ragVars>>
       ELSE /\ chat' = [NoChat EXCEPT !.at = "cacheGet",
                                      !.calls = <<"getCachedSearchResults">>]
            /\ Enter(P, "cacheGet", ChatQuery)
            /\ GetReadOnlyRedisClient(P, "cacheGet")
            /\ UNCHANGED <<redisClient, redisErrorLogged, env, load, ragVars, store, console,
                           last, nextMsg, pushed>>

\* getCachedSearchResults has returned: with a value the route goes on to the
\* history, with null to await getRAGContext(message, 5)
AfterCacheGet ==
  /\ chat.at = "cacheGet"
  /\ pc[P] = "done"
  /\ IF result[P] # Null
     THEN /\ Resume(P, "read", ChatSession)
          /\ GetReadOnlyRedisClient(P, "read")
          /\ chat' = [chat EXCEPT !.at = "history",
                                  !.calls = Append(@, "getSessionHistory"),
                                  !.cachedResults = result[P],
                                  !.hit = last[P] = "ok" /\ cache[ChatQuery] # <<>>]
          /\ UNCHANGED <<redisClient, redisErrorLogged, env, load, ragVars, store, console,
                         nextMsg, pushed, chats, keyVars, setupVars, clientVars>>
     ELSE /\ rpc = "idle"
          /\ fn' = "context"
          /\ SearchEntry("context", ChatText, ChatTopK)
          /\ chat' = [chat EXCEPT !.at = "context",
                                  !.calls = Append(@, "getRAGContext"),
                                  !.cachedResults = result[P],
                                  !.hit = last[P] = "ok" /\ cache[ChatQuery] # <<>>]
          /\ UNCHANGED <<redisVars, chats, keyVars, setupVars, clientVars>>

\* getRAGContext has returned: the route runs up to await cacheSearchResults(
\* message, { context, sources }, 300)
AfterContext ==
  /\ chat.at = "context"
  /\ rpc = "done"
  /\ RagReset
  /\ Resume(P, "cacheSet", ChatQuery)
  /\ GetRedisClient(P, "cacheSet", ChatQuery, ChatResults)
  /\ ChatAt("cacheSet", "cacheSearchResults")
  /\ UNCHANGED <<readOnlyRedisClient, redisErrorLogged, env, load, store, console, nextMsg,
                 file, loadVars, embeddedChunks, jinaApiKey, embeddingCache, lastEmbedding,
                 chats, keyVars, setupVars, clientVars>>

\* getRAGContext has thrown: the outer catch answers 500
ContextThrew ==
  /\ chat.at = "context"
  /\ rpc = "threw"
  /\ RagReset
  /\ pc[P] = "done"
  /\ Released(P)
  /\ Responded(500, FALSE)
  /\ UNCHANGED <<handles, env, load, store, console, nextMsg, pushed,
                 file, loadVars, embeddedChunks, jinaApiKey, embeddingCache, lastEmbedding,
                 chats, keyVars, setupVars, clientVars>>

\* cacheSearchResults has returned
AfterCacheSet ==
  /\ chat.at = "cacheSet"
  /\ CallGetSessionHistory

\* getSessionHistory has returned: the route awaits generateRAGResponse when
\* GEMINI_API_KEY is set, else it takes the mock response and goes on to await
\* addMessageToSession(sessionId, userMessage)
AfterHistory ==
  /\ chat.at = "history"
  /\ pc[P] = "done"
  /\ \E geminiApiKey \in BOOLEAN :
       IF geminiApiKey
       THEN /\ chat' = [chat EXCEPT !.at = "generate"]
            /\ UNCHANGED <<redisVars, ragVars, chats, keyVars, setupVars, clientVars>>
       ELSE /\ chat' = [chat EXCEPT !.at = "userMessage", !.response = "mock",
                                    !.calls = Append(@, "addMessageToSession(userMessage)")]
            /\ CallAddMessageToSession("userMessage")

\* generateRAGResponse has returned or thrown (then the mock response is
\* taken): the route goes on to await addMessageToSession(sessionId, userMessage)
Generated ==
  /\ chat.at = "generate"
  /\ \E r \in {"gemini", "mock"} :
       chat' = [chat EXCEPT !.at = "userMessage", !.response = r,
                            !.calls = Append(@, "addMessageToSession(userMessage)")]
  /\ CallAddMessageToSession("userMessage")

\* the user message is stored or given up
AfterUserMessage ==
  /\ chat.at = "userMessage"
  /\ ChatAt("assistantMessage", "addMessageToSession(assistantMessage)")
  /\ CallAddMessageToSession("assistantMessage")

\* the assistant message is stored or given up: the route answers with
\* cached: !!cachedResults
AfterAssistantMessage ==
  /\ chat.at = "assistantMessage"
  /\ pc[P] = "done"
  /\ Released(P)
  /\ Responded(200, chat.cachedResults # Null)
  /\ UNCHANGED <<handles, env, load, ragVars, store, console, nextMsg, pushed, chats, keyVars, setupVars, clientVars>>

\* the files of the chat service: none, or one chunk about the query
ChatFiles ==
  { NoFile, [kind |-> "json", chunks |-> << Chunk(<<1, 1>>, 0, <<"a">>, <<"c">>) >>] }

ChatSpecInit ==
  /\ RedisInit
  /\ load = [sessions |-> {"s1"}, cache |-> TRUE]
  /\ ChatInit
  /\ \E f \in ChatFiles, key \in BOOLEAN : RagInit(f, key)

ChatNext ==
  \/ POST
  \/ AfterCacheGet
  \/ AfterContext
  \/ ContextThrew
  \/ AfterCacheSet
  \/ AfterHistory
  \/ Generated
  \/ AfterUserMessage
  \/ AfterAssistantMessage
  \/ Get(P)
  \/ Fetch
  \/ Rank
  \/ BuildContext
  \/ Probe(P)
  \/ Setex(P)
  \/ Lrange(P)
  \/ Rpush(P)
  \/ Expire(P)
  \/ Ltrim(P)
  \/ CacheExpires(ChatQuery)

\* chat requests, one after the other
ChatSpec == ChatSpecInit /\ [][ChatNext]_vars

\* ------------------------------------------------------- the store's keys
\* A query is a JavaScript string: a sequence of UTF-16 code units.  The units
\* used: a, A, space, a high surrogate and a low surrogate.
MaxQueryLen == 2       \* code units in a query
Units == {97, 65, 32, 55296, 56320}
QueryTexts == UNION { [1..n -> Units] : n \in 0..MaxQueryLen }
SessionIds == { <<>>, <<"a">>, <<":">>, <<"Y", "Q", "=", "=">> }

IsHigh(c) == c >= 55296 /\ c < 56320
IsLow(c) == c >= 56320 /\ c < 57344

\* Buffer.from(query): the UTF-8 bytes of the string; a surrogate pair is one
\* code point of four bytes, a surrogate without its partner becomes U+FFFD
RECURSIVE Utf8(_)
Utf8(s) ==
  IF s = <<>> THEN <<>>
  ELSE LET c == Head(s) IN
    IF c < 128 THEN <<c>> \o Utf8(Tail(s))
    ELSE IF c < 2048 THEN <<192 + (c \div 64), 128 + (c % 64)>> \o Utf8(Tail(s))
    ELSE IF IsHigh(c) /\ Len(s) >= 2 /\ IsLow(s[2])
      THEN LET cp == 65536 + (c - 55296) * 1024 + (s[2] - 56320)
           IN <<240 + (cp \div 262144), 128 + ((cp \div 4096) % 64),
                128 + ((cp \div 64) % 64), 128 + (cp % 64)>> \o Utf8(Tail(Tail(s)))
    ELSE IF IsHigh(c) \/ IsLow(c) THEN <<239, 191, 189>> \o Utf8(Tail(s))
    ELSE <<224 + (c \div 4096), 128 + ((c \div 64) % 64), 128 + (c % 64)>>
           \o Utf8(Tail(s))

Base64Alphabet ==
  <<"A", "B", "C", "D", "E", "F", "G", "H", "I", "J", "K", "L", "M", "N", "O", "P",
    "Q", "R", "S", "T", "U", "V", "W", "X", "Y", "Z", "a", "b", "c", "d", "e", "f",
    "g", "h", "i", "j", "k", "l", "m", "n", "o", "p", "q", "r", "s", "t", "u", "v",
    "w", "x", "y", "z", "0", "1", "2", "3", "4", "5", "6", "7", "8", "9", "+", "/">>
Digit64(n) == Base64Alphabet[n + 1]

\* .toString("base64"): three bytes make four digits, the rest is padded with =
RECURSIVE Base64(_)
Base64(b) ==
  IF b = <<>> THEN <<>>
  ELSE IF Len(b) = 1
    THEN <<Digit64(b[1] \div 4), Digit64((b[1] % 4) * 16), "=", "=">>
  ELSE IF Len(b) = 2
    THEN <<Digit64(b[1] \div 4), Digit64((b[1] % 4) * 16 + (b[2] \div 16)),
           Digit64((b[2] % 16) * 4), "=">>
  ELSE <<Digit64(b[1] \div 4), Digit64((b[1] % 4) * 16 + (b[2] \div 16)),
         Digit64((b[2] % 16) * 4 + (b[3] \div 64)), Digit64(b[3] % 64)>>
         \o Base64(SubSeq(b, 4, Len(b)))

\* `search:${Buffer.from(query).toString("base64")}`
cacheKey(q) == <<"s", "e", "a", "r", "c", "h", ":">> \o Base64(Utf8(q))
\* `session:${sessionId}:history`
historyKey(sessionId) ==
  <<"s", "e", "s", "s", "i", "o", "n", ":">> \o sessionId
    \o <<":", "h", "i", "s", "t", "o", "r", "y">>
\* the key of the connection test
HealthcheckKey == <<"h", "e", "a", "l", "t", "h", "c", "h", "e", "c", "k">>

Keyed(of, text, key) ==
  [last |-> [of |-> of, text |-> text, key |-> key], prev |-> keyed.last]

\* cacheSearchResults(query, ...) and getCachedSearchResults(query) derive the
\* key of the query
DeriveCacheKey ==
  /\ \E q \in QueryTexts : keyed' = Keyed("query", q, cacheKey(q))
  /\ UNCHANGED <<redisVars, ragVars, chat, chats, setupVars, clientVars>>

\* getSessionHistory, addMessageToSession and clearSession derive the key of
\* the session
DeriveHistoryKey ==
  /\ \E s \in SessionIds : keyed' = Keyed("session", s, historyKey(s))
  /\ UNCHANGED <<redisVars, ragVars, chat, chats, setupVars, clientVars>>

KeySpecInit == RedisAtRest /\ RagInit(NoFile, FALSE)
KeyNext == DeriveCacheKey \/ DeriveHistoryKey
KeySpec == KeySpecInit /\ [][KeyNext]_vars

\* ------------------------------------------------------- the setup script
\* scripts/setup-embeddings.js, createEmbeddings with the provider: the chunks
\* of data/article_chunks.json are numbered 1..chunks, embedded in batches and
\* written to data/embedded_chunks.json.  An action is the code from one await
\* to the next.
MaxSetupChunks == 3    \* chunks in data/article_chunks.json
BatchSize == 2         \* batchSize, scaled to the model's chunk counts
MaxRetries == 3        \* maxRetries

\* chunks.slice(i, i + batchSize), as the numbers of the chunks
Batch(n, i) == { c \in 1..n : c > i /\ c <= i + BatchSize }
BatchSeq(n, i) == [k \in 1..Cardinality(Batch(n, i)) |-> i + k]

\* the answers of the provider to one request: the embeddings asked for, a
\* failure (no answer, a status other than 2xx, a body that is no JSON, a data
\* array of another length), a data array of items without an embedding, or a
\* data array whose item j is null
SetupAnswers(b) ==
  {[kind |-> "ok", j |-> 0], [kind |-> "fail", j |-> 0], [kind |-> "noEmbedding", j |-> 0]}
    \cup { [kind |-> "nullItem", j |-> j] : j \in 1..Len(b) }

\* the records pushed for the chunks b with an embedding of kind e
Embedded(b, e, err) == [k \in 1..Len(b) |-> [chunk |-> b[k], embedding |-> e, error |-> err]]

\* the for loop goes on from i with the output out: the next batch is
\* requested, or the output is written and the function returns
ForLoop(out, i) ==
  IF i < setup.chunks
  THEN [setup EXCEPT !.at = "fetch", !.i = i, !.retries = 0, !.success = FALSE,
                     !.embeddedChunks = out, !.attempts = 1]
  ELSE [setup EXCEPT !.at = "done", !.i = i, !.embeddedChunks = out, !.written = TRUE]

\* createEmbeddings() is called on a file of n chunks
createEmbeddings ==
  /\ setup.at = "idle"
  /\ setup' = ForLoop(<<>>, 0)
  /\ UNCHANGED <<redisVars, ragVars, chat, chats, keyVars, clientVars>>

\* await fetch(...) and await response.json() are answered: the try block
\* pushes the embedded chunks, or the catch block counts the failure and, at
\* the last one, pushes the fallbacks and the loops go on
Answered ==
  /\ setup.at = "fetch"
  /\ \E a \in SetupAnswers(BatchSeq(setup.chunks, setup.i)) :
       LET batch == BatchSeq(setup.chunks, setup.i)
       IN IF a.kind \in {"ok", "noEmbedding"}
          THEN setup' = [setup EXCEPT
                 !.embeddedChunks = @ \o Embedded(batch,
                     IF a.kind = "ok" THEN "provider" ELSE "undefined", FALSE),
                 !.success = TRUE, !.at = "pause"]
          ELSE LET partial == setup.embeddedChunks
                               \o Embedded(SubSeq(batch, 1, IF a.kind = "nullItem" THEN a.j - 1 ELSE 0),
                                           "provider", FALSE)
                   retries == setup.retries + 1
               IN IF retries < MaxRetries
                  THEN setup' = [setup EXCEPT !.embeddedChunks = partial,
                                              !.retries = retries, !.at = "backoff"]
                  ELSE setup' = ForLoop(partial \o Embedded(batch, "mock", TRUE),
                                        setup.i + BatchSize)
  /\ UNCHANGED <<redisVars, ragVars, chat, chats, keyVars, clientVars>>

\* the pause after a successful batch is over: the while loop ends and the for
\* loop goes on
Paused ==
  /\ setup.at = "pause"
  /\ setup' = ForLoop(setup.embeddedChunks, setup.i + BatchSize)
  /\ UNCHANGED <<redisVars, ragVars, chat, chats, keyVars, clientVars>>

\* the delay before a retry is over: the batch is requested again
Retried ==
  /\ setup.at = "backoff"
  /\ setup' = [setup EXCEPT !.at = "fetch", !.attempts = @ + 1]
  /\ UNCHANGED <<redisVars, ragVars, chat, chats, keyVars, clientVars>>

SetupSpecInit ==
  /\ StoreAtRest
  /\ RouteInit
  /\ KeyInit
  /\ ClientIdle
  /\ RagInit(NoFile, FALSE)
  /\ \E n \in 0..MaxSetupChunks :
       setup = [at |-> "idle", chunks |-> n, i |-> 0, retries |-> 0, success |-> FALSE,
                embeddedChunks |-> <<>>, written |-> FALSE, attempts |-> 0]
SetupNext == createEmbeddings \/ Answered \/ Paused \/ Retried
SetupSpec == SetupSpecInit /\ [][SetupNext]_vars
\* the provider answers every request and every timer fires
SetupLiveSpec == SetupSpec /\ WF_vars(SetupNext)

\* ------------------------------------------------------- the chat client
\* ChatInterface (src/app/api/session/analytics/route.ts): the component's
\* state, the requests it awaits and the history items of localStorage.  A
\* session id is a number, 0 the empty string; a message is the session whose
\* query it is or answers, and its role.  An action is a handler from one
\* await to the next, with the render and the effects that follow it.
MaxSessions == 2       \* session ids generated
MaxSubmits == 2        \* queries submitted
SessionNumbers == 1..MaxSessions

NewMessage(s, role) == [session |-> s, role |-> role]

\* getHistoryFromLocal(sessionId): the stored list, null and [] alike as <<>>
getHistoryFromLocal(s) == localStorage[s]

\* the render after a handler's state updates, and the persist-history effect
\* that follows it: saveHistoryToLocal(sessionId, messages) and the sidebar's
\* updateCurrentSession(messages), with the state the handler left
Rendered(sessionId, messages, flags, items) ==
  /\ ui' = [flags EXCEPT !.sessionId = sessionId, !.messages = messages,
                         !.listed = IF messages # <<>> /\ sessionId # 0
                                    THEN @ \cup {sessionId} ELSE @]
  /\ localStorage' = IF sessionId = 0 THEN items ELSE [items EXCEPT ![sessionId] = messages]
  /\ UNCHANGED <<redisVars, ragVars, chat, chats, keyVars, setupVars>>

\* handleSubmit up to await fetch("/api/chat")
handleSubmit ==
  /\ ~ui.isLoading
  /\ ui.submits < MaxSubmits
  /\ Rendered(ui.sessionId, Append(ui.messages, NewMessage(ui.sessionId, "user")),
              [ui EXCEPT !.isLoading = TRUE, !.posting = ui.sessionId, !.submits = @ + 1],
              localStorage)

\* handleSubmit resumes: the answer, or the error, is appended
PostAnswered ==
  /\ ui.posting # 0
  /\ \E out \in {"ok", "fail"} :
       Rendered(ui.sessionId,
                Append(ui.messages,
                       NewMessage(ui.posting, "assistant")),
                [ui EXCEPT !.isLoading = FALSE, !.posting = 0,
                           !.served = IF out = "ok" THEN @ \cup {ui.posting} ELSE @],
                localStorage)

\* resetSession up to await fetch(..., { method: "DELETE" })
resetSession ==
  /\ ui.resetting = 0
  /\ ui.nextId <= MaxSessions
  /\ ui' = [ui EXCEPT !.resetting = ui.sessionId]
  /\ UNCHANGED <<redisVars, ragVars, chat, chats, keyVars, setupVars, localStorage>>

\* resetSession resumes, whatever the answer; the server has dropped the log of
\* the session when it answers
ResetAnswered ==
  /\ ui.resetting # 0
  /\ ui.nextId <= MaxSessions
  /\ \E out \in {"ok", "fail"} :
       Rendered(ui.nextId, <<>>,
                [ui EXCEPT !.resetting = 0, !.nextId = @ + 1,
                           !.served = IF out = "ok" THEN @ \ {ui.resetting} ELSE @],
                localStorage)

\* handleNewSession(), also from handleDeleteSession of the current session
handleNewSession ==
  /\ ui.nextId <= MaxSessions
  /\ Rendered(ui.nextId, <<>>, [ui EXCEPT !.nextId = @ + 1], localStorage)

\* loadSessionHistory(id) up to its return or to await fetch(`/api/session/${id}`)
LoadSessionHistory(current, id) ==
  IF getHistoryFromLocal(id) # <<>>
  THEN Rendered(current, getHistoryFromLocal(id), ui, localStorage)
  ELSE Rendered(current, ui.messages,
                [ui EXCEPT !.isLoadingHistory = TRUE, !.loading = @ \cup {id}],
                localStorage)

\* handleSessionSelect(id), from an entry of the sidebar
handleSessionSelect ==
  \E id \in ui.listed :
    /\ id # ui.sessionId
    /\ LoadSessionHistory(id, id)

\* the History button: loadSessionHistory(sessionId)
loadSessionHistory ==
  /\ ~ui.isLoadingHistory
  /\ ui.sessionId \notin ui.loading
  /\ LoadSessionHistory(ui.sessionId, ui.sessionId)

\* loadSessionHistory(id) resumes with the server's answer: the session's log
\* (of a session the server has answered a query of), an empty log or a failure
LoadAnswered ==
  \E id \in ui.loading, out \in {"history", "empty", "fail"} :
    /\ out = "history" => id \in ui.served
    /\ LET history == <<NewMessage(id, "user"), NewMessage(id, "assistant")>>
           flags == [ui EXCEPT !.isLoadingHistory = FALSE, !.loading = @ \ {id}]
       IN CASE out = "history" ->
                 Rendered(ui.sessionId, history, flags,
                          [localStorage EXCEPT ![id] = history])
            [] out = "empty" -> Rendered(ui.sessionId, <<>>, flags, localStorage)
            [] out = "fail" ->
                 Rendered(ui.sessionId, getHistoryFromLocal(id), flags, localStorage)

\* the page is open: the mount effect has generated the first session id
ClientSpecInit ==
  /\ StoreAtRest
  /\ RouteInit
  /\ KeyInit
  /\ SetupIdle
  /\ RagInit(NoFile, FALSE)
  /\ ui = [sessionId |-> 1, messages |-> <<>>, isLoading |-> FALSE,
           isLoadingHistory |-> FALSE, posting |-> 0, loading |-> {}, resetting |-> 0,
           nextId |-> 2, submits |-> 0, listed |-> {}, served |-> {}]
  /\ localStorage = [s \in SessionNumbers |-> <<>>]
ClientNext ==
  \/ handleSubmit
  \/ PostAnswered
  \/ resetSession
  \/ ResetAnswered
  \/ handleNewSession
  \/ handleSessionSelect
  \/ loadSessionHistory
  \/ LoadAnswered
ClientSpec == ClientSpecInit /\ [][ClientNext]_vars

\* the key/value layer from its start, the vector store untouched
Init == RedisInit /\ RagInit(NoFile, FALSE) /\ ChatInit

Spec == Init /\ [][Next]_vars

\* ------------------------------------------------------------- properties
SessionOps == {"append", "read", "clear"}
CacheOps == {"cacheSet", "cacheGet"}

\* an append to s has been called and has not returned
AppendInFlight(s) ==
  \E p \in Procs : op[p] = "append" /\ arg[p] = s /\ pc[p] # "done"

\* the last n elements of l, by position
LastEntries(l, n) ==
  LET k == IF Len(l) < n THEN Len(l) ELSE n
  IN [i \in 1..k |-> l[Len(l) - k + i]]

\* C1: in every reachable state, also between the steps of an append in flight,
\* no session log holds more than 50 entries.
C1_LogNeverExceedsCap == \A s \in Sessions : Len(lists[s]) <= MaxHistory

\* C2: when an append has returned and no other append to the same session is in
\* flight, the log of that session holds at most 50 entries, whether the steps of
\* the append succeeded or one of them failed.
C2_CapAfterAppendReturns ==
  \A p \in Procs :
    (pc[p] = "done" /\ op[p] = "append" /\ ~AppendInFlight(arg[p]))
      => Len(lists[arg[p]]) <= MaxHistory

\* C3: push, TTL refresh and trim of one append are one unit: while an append to a
\* session is between its push and the answer to its trim, no other append, read
\* or clear of that session has a request applied to the store.
C3_AppendIsOneUnit ==
  [][\A p, q \in Procs :
       (/\ p # q
        /\ op[p] = "append" /\ pc[p] \in {"expire", "ltrim"}
        /\ arg[q] = arg[p]
        /\ pc[q] \in {"rpush", "expire", "ltrim", "lrange", "del"})
         => pc'[q] = pc[q]]_vars

\* the next awaited step of an append in flight
AppendStep(p) == Probe(p) \/ Rpush(p) \/ Expire(p) \/ Ltrim(p)

\* C4: an append in flight is never blocked (its next step, one of at most four,
\* can be taken), and when every append to a session has pushed and finished all
\* its steps and none is in flight, the log is exactly the last min(n, 50) entries
\* pushed, in push order.
C4_ConcurrentAppendsKeepLastPushed ==
  /\ \A p \in Procs :
       (op[p] = "append" /\ pc[p] # "done") => ENABLED AppendStep(p)
  /\ \A s \in Sessions :
       (pushed[s] # Lost /\ ~AppendInFlight(s))
         => lists[s] = LastEntries(pushed[s], MaxHistory)

\* two appends to s1 were in flight together (the later call pushed first), both
\* returned, and the oldest entry was trimmed away
C4_Witness ==
  /\ \A p \in Procs : pc[p] = "done" /\ op[p] = "append" /\ arg[p] = "s1" /\ last[p] = "ok"
  /\ pushed["s1"] # Lost
  /\ Len(pushed["s1"]) = MaxHistory + 1
  /\ lists["s1"][MaxHistory - 1] = JsonStringify(MaxHistory + 2)
  /\ lists["s1"][MaxHistory] = JsonStringify(MaxHistory + 1)

\* C5: once the liveness probe has failed the layer stays disabled: redisDisabled
\* never returns to false, and every call that starts afterwards, on the read path
\* or the write path, returns its degraded value without a request to the store.
C5_ProbeFailureDisablesForGood ==
  /\ [](probeFailed => redisDisabled)
  /\ [][/\ redisDisabled => redisDisabled'
        /\ \A p \in Procs :
             (redisDisabled /\ pc[p] = "idle" /\ pc'[p] # "idle")
               => /\ pc'[p] = "done"
                  /\ last'[p] = "none"
                  /\ result'[p] = Degraded(op'[p])
                  /\ store' = store]_vars

\* after a failed probe (and no authorization warning), a read-path call and a
\* write-path call have returned without a request
C5_Witness ==
  /\ probeFailed /\ warnCount = 0
  /\ \E p, q \in Procs :
       /\ pc[p] = "done" /\ op[p] \in ReadOps /\ last[p] = "none"
       /\ pc[q] = "done" /\ op[q] \in WriteOps /\ last[q] = "none"

\* C6: a call that finds the connection configuration missing leaves the layer
\* disabled, as a failed probe does.
C6_MissingConfigDisables ==
  \A p \in Procs :
    (/\ pc[p] = "done"
     /\ \/ op[p] \in WriteOps /\ WriteConfigMissing
        \/ op[p] \in ReadOps /\ ReadConfigMissing)
      => redisDisabled

\* C7: a cache get or set that receives an authorization failure leaves the layer
\* disabled for good, and the authorization warning is emitted exactly once however
\* many such calls receive one.
C7_AuthFailureWarnsOnce ==
  /\ [](/\ warnCount <= 1
        /\ redisErrorLogged <=> warnCount = 1
        /\ \A p \in Procs :
             (/\ pc[p] = "done" /\ op[p] \in CacheOps
              /\ client[p] # NoClient /\ last[p] = "auth")
               => redisDisabled /\ warnCount = 1)
  /\ [][redisDisabled => redisDisabled']_vars

\* a cache set and a cache get, in flight together, both received an
\* authorization failure
C7_Witness ==
  \E p, q \in Procs :
    /\ pc[p] = "done" /\ op[p] = "cacheSet" /\ client[p] # NoClient /\ last[p] = "auth"
    /\ pc[q] = "done" /\ op[q] = "cacheGet" /\ client[q] # NoClient /\ last[q] = "auth"
    /\ warnCount = 1

\* C8: an authorization failure answered to a session append, read or clear
\* disables the layer, as it does for cache get and set.
C8_SessionAuthFailureDisables ==
  \A p \in Procs :
    (/\ pc[p] = "done" /\ op[p] \in SessionOps
     /\ client[p] # NoClient /\ last[p] = "auth")
      => redisDisabled

\* C9: with the store unreachable (no client, or the request failing) append, read
\* and clear return their degraded values and never raise, and a step of an append
\* whose request did not succeed changes no session log.
C9_UnreachableStoreDegrades ==
  /\ [](\A p \in Procs :
          (pc[p] = "done" /\ op[p] \in SessionOps /\ last[p] # "ok")
            => result[p] = Degraded(op[p]))
  /\ [][\A p \in Procs :
          (op'[p] = "append" /\ pc'[p] # pc[p] /\ last'[p] # "ok")
            => lists' = lists /\ ttl' = ttl]_vars

\* a read of a non-empty log failed and returned the empty sequence, an append
\* failed at its push
C9_Witness ==
  \E p, q \in Procs :
    /\ pc[p] = "done" /\ op[p] = "read" /\ client[p] # NoClient /\ last[p] = "fail"
    /\ lists[arg[p]] # <<>> /\ result[p] = List(<<>>)
    /\ pc[q] = "done" /\ op[q] = "append" /\ client[q] # NoClient /\ last[q] = "fail"

\* C10: clearSession returns true in every case, so the DELETE route never answers
\* "Failed to clear session".
C10_ClearAlwaysSucceeds ==
  \A p \in Procs :
    (pc[p] = "done" /\ op[p] = "clear")
      => result[p] = True /\ http[p] = "Session cleared successfully"

\* the delete failed, the log is still there, and the route answered success
C10_Witness ==
  \E p \in Procs :
    /\ pc[p] = "done" /\ op[p] = "clear" /\ client[p] # NoClient /\ last[p] = "fail"
    /\ lists[arg[p]] # <<>>
    /\ http[p] = "Session cleared successfully"

\* C11: with the layer enabled and the store healthy, a get that follows a
\* set(key, v, 300) with no other set on the key in between returns v, and a
\* get after the 300 s have elapsed returns absence.
C11_SetThenGetReturnsValue ==
  [][\A p \in Procs :
       (pc[p] = "get" /\ pc'[p] = "done" /\ last'[p] = "ok")
         => result'[p] = IF cache[arg[p]] = <<>> THEN Null
                         ELSE Value(JsonParse(cache[arg[p]]))]_vars

\* C12: cache get and set never raise: whatever the store answers and whatever
\* is stored, set returns undefined and get returns a value or null.
C12_CacheNeverRaises ==
  \A p \in Procs :
    (pc[p] = "done" /\ op[p] \in CacheOps)
      => /\ op[p] = "cacheSet" => result[p] = Void
         /\ op[p] = "cacheGet" => result[p].kind \in {"null", "value"}

\* a get answered with a stored entry that JSON.parse rejects has returned null
C12_Witness ==
  \E p \in Procs :
    /\ pc[p] = "done" /\ op[p] = "cacheGet" /\ last[p] = "ok"
    /\ cache[arg[p]] # <<>>
    /\ ~Parses(AsString(GetReply(cache[arg[p]])))
    /\ result[p] = Null
\* searchSimilarChunks has returned topResults to its caller
SearchReturned == fn \in {"search", "context"} /\ rpc \in {"searched", "done"}

\* a >= b as numbers: false when either is NaN
Geq(a, b) == ~IsNaN(a) /\ ~IsNaN(b) /\ a >= b

\* C13: a search returns at most topK results, each of similarity above 0.1,
\* in non-increasing order of relevance; on an empty corpus it returns the
\* empty sequence and has not embedded the query.
C13_SearchResultShape ==
  SearchReturned =>
    /\ Len(topResults) <= topK
    /\ \A i \in 1..Len(topResults) : topResults[i].similarity > MinSimilarity
    /\ \A i \in 1..(Len(topResults) - 1) :
         Geq(topResults[i].relevanceScore, topResults[i + 1].relevanceScore)
    /\ embeddedChunks.chunks = <<>> => topResults = <<>> /\ embedCalls = 0

\* C14: the search result is the first topK elements of the chunks sorted
\* stably by descending relevance with those of similarity <= 0.1 removed, and
\* it is shorter than topK only if fewer than topK chunks have similarity > 0.1.
C14_SearchIsTopKOfQualifying ==
  SearchReturned =>
    /\ topResults = Slice(FilterSimilar(StableSort(results)), topK)
    /\ Len(topResults) < topK =>
         Cardinality({ i \in 1..Len(results) : results[i].similarity > MinSimilarity })
           < topK

\* C15: every relevance score computed for a chunk lies in [0,1].
C15_RelevanceInUnitInterval ==
  \A i \in 1..Len(results) :
    /\ ~IsNaN(results[i].relevanceScore)
    /\ results[i].relevanceScore >= 0
    /\ results[i].relevanceScore <= Scale
\* the title of result i matches some word of the query / none
TitleMatchesQuery(i) ==
  TitleMatches(Split(ToLowerCase(query)), Split(ToLowerCase(results[i].title))) # {}

\* results i and j have one similarity and one publish date, the title of i
\* matches query words and the title of j matches none
TitleOnlyDiffers(i, j) ==
  /\ results[i].similarity = results[j].similarity
  /\ embeddedChunks.chunks[i].pubDate = embeddedChunks.chunks[j].pubDate
  /\ TitleMatchesQuery(i)
  /\ ~TitleMatchesQuery(j)

\* C16 as stated: of two chunks with equal similarity and equal publish date,
\* the one whose title matches query terms has the greater relevance.
C16_TitleMatchRanksHigher ==
  \A i, j \in 1..Len(results) :
    TitleOnlyDiffers(i, j) =>
      /\ ~IsNaN(results[i].relevanceScore)
      /\ results[i].relevanceScore > results[j].relevanceScore

\* C16 amended: of two chunks with equal similarity and equal publish date, the
\* relevance of the one whose title matches query terms is never below that of
\* the one whose title matches none, and exceeds it whenever the latter's
\* relevance is a number below the cap 1.
C16_TitleMatchNeverRanksLower ==
  \A i, j \in 1..Len(results) :
    TitleOnlyDiffers(i, j) =>
      /\ IsNaN(results[j].relevanceScore) <=> IsNaN(results[i].relevanceScore)
      /\ results[i].relevanceScore >= results[j].relevanceScore
      /\ (~IsNaN(results[j].relevanceScore) /\ results[j].relevanceScore < Scale)
           => results[i].relevanceScore > results[j].relevanceScore

\* two scored chunks differ in the title match only, and the match ranks higher
C16_Witness ==
  \E i, j \in 1..Len(results) :
    /\ TitleOnlyDiffers(i, j)
    /\ ~IsNaN(results[j].relevanceScore)
    /\ results[j].relevanceScore < Scale
    /\ results[i].relevanceScore > results[j].relevanceScore

\* getRAGContext has returned ragContext
ContextReturned == fn = "context" /\ rpc = "done"

\* the part of the context that holds result i
PartOf(i) ==
  CHOOSE g \in 1..Len(ragContext.context.parts) :
    \E n \in 1..Len(ragContext.context.parts[g].content) :
      ragContext.context.parts[g].content[n] = topResults[i].id

\* C17: getRAGContext groups the results by the pair (source, title): two
\* results share a group exactly if they agree on source and on title, and the
\* sources list has one entry per distinct pair, in first-seen order.
C17_GroupsBySourceAndTitle ==
  (ContextReturned /\ topResults # <<>>) =>
    /\ \A i, j \in 1..Len(topResults) :
         PartOf(i) = PartOf(j)
           <=> (topResults[i].source = topResults[j].source
                  /\ topResults[i].title = topResults[j].title)
    /\ LET pairs == FirstSeen([i \in 1..Len(topResults) |->
                                 <<topResults[i].source, topResults[i].title>>])
       IN ragContext.sources =
            [g \in 1..Len(pairs) |-> Concat(pairs[g][1], <<" ", "-", " ">>, pairs[g][2])]

\* C18: when the search returns no result, getRAGContext returns the fixed
\* context and summary with no sources and no chunks.
C18_EmptySearchGivesFixedContext ==
  (ContextReturned /\ topResults = <<>>) =>
    /\ ragContext.context.text = NoInfoContext
    /\ ragContext.context.parts = <<>>
    /\ ragContext.summary.text = NoInfoSummary
    /\ ragContext.sources = <<>>
    /\ ragContext.chunks = <<>>

\* a context request over a corpus none of whose top chunks passed the filter
C18_Witness ==
  /\ ContextReturned
  /\ embeddedChunks.chunks # <<>>
  /\ topResults = <<>>
  /\ ragContext.context.text = NoInfoContext

\* the vector is all zeros
ZeroVector(v) == \A i \in 1..Len(v) : v[i] = 0

\* C19: the similarity of two vectors is 0 when their dimensions differ or one
\* has zero magnitude, 1 when they are identical and nonzero, always within
\* [-1,1], and never NaN.
C19_CosineRange ==
  \A i \in 1..Len(results) :
    LET vecA == embedding
        vecB == embeddedChunks.chunks[i].embedding
        similarity == results[i].similarity
    IN /\ (Len(vecA) # Len(vecB) \/ ZeroVector(vecA) \/ ZeroVector(vecB)) => similarity = 0
       /\ (vecA = vecB /\ ~ZeroVector(vecA)) => similarity = Scale
       /\ similarity >= 0 - Scale /\ similarity <= Scale
       /\ ~IsNaN(similarity)
\* a createEmbedding call returns, and an earlier call for the same text returned
SecondEmbedding ==
  /\ rpc = "embedded" /\ fn = "embed" /\ rpc' = "done"
  /\ lastEmbedding[query] # NoVector

ReadAnswered(p) == pc[p] = "lrange" /\ pc'[p] = "done" /\ last'[p] = "ok"

\* the messages whose JSON texts are the entries l
Messages(l) == [i \in 1..Len(l) |-> JsonParse(l[i])]

\* C25: after n appends to a session that all pushed, refreshed and trimmed,
\* with no clear in between and none in flight, a read answered by the store
\* returns the last min(n, 50) messages appended, oldest first.
C25_ReadReturnsLastAppended ==
  [][\A p \in Procs :
       (ReadAnswered(p) /\ pushed[arg[p]] # Lost /\ ~AppendInFlight(arg[p]))
         => result'[p] = List(Messages(LastEntries(pushed[arg[p]], MaxHistory)))]_vars

\* C26: a read answered by the store returns every stored entry that is JSON
\* text, parsed and in stored order, and nothing else.
C26_ReadReturnsEveryParsableEntry ==
  [][\A p \in Procs :
       ReadAnswered(p)
         => result'[p] = List(Messages(SelectSeq(lists[arg[p]], Parses)))]_vars

\* C27: whenever no append to a session is in flight, a stored log of that
\* session carries the 24 h time-to-live: no log is left in the store without
\* one.
C27_StoredLogHasTTL ==
  \A s \in Sessions :
    (lists[s] # <<>> /\ ~AppendInFlight(s)) => ttl[s] = SessionTTL

\* the call of p takes a step
Steps(p) == pc'[p] # pc[p]

\* the function and the session or query of the call of p taking a step
StepOp(p) == IF pc[p] = "idle" THEN op'[p] ELSE op[p]
StepArg(p) == IF pc[p] = "idle" THEN arg'[p] ELSE arg[p]

\* C28: every step of an append, read or clear on a session leaves the log and
\* the TTL of every other session and every cache entry as they are, and every
\* step of a cache get or set leaves every session log and TTL as they are,
\* however the steps of concurrent calls interleave.
C28_SessionsAndCacheAreIndependent ==
  [][\A p \in Procs :
       Steps(p) =>
         /\ StepOp(p) \in SessionOps =>
              /\ \A b \in Sessions \ {StepArg(p)} :
                   lists'[b] = lists[b] /\ ttl'[b] = ttl[b]
              /\ cache' = cache /\ cacheTtl' = cacheTtl
         /\ StepOp(p) \in CacheOps => lists' = lists /\ ttl' = ttl]_vars

\* an append to s1 has pushed and refreshed the TTL while a call on s2 is in
\* flight, and the log of s2 is still empty and without TTL
C28_Witness ==
  \E p, q \in Procs :
    /\ op[p] = "append" /\ arg[p] = "s1" /\ pc[p] = "ltrim"
    /\ op[q] \in SessionOps /\ arg[q] = "s2" /\ pc[q] \notin {"idle", "done"}
    /\ Len(lists["s1"]) = MaxHistory
    /\ lists["s2"] = <<>> /\ ttl["s2"] = 0

\* the entries of the log l
Entries(l) == { l[i] : i \in 1..Len(l) }

\* C29: a read or a cache get changes nothing in the store; a clear of a
\* cleared session and a cache set of the value already cached, each applied by
\* the store, leave the store as it is; and an append that ends on a failed
\* request leaves nothing of its message in the store.
C29_IdempotentAndNoPartialState ==
  [][\A p \in Procs :
       Steps(p) =>
         /\ StepOp(p) \in {"read", "cacheGet"} => store' = store
         /\ (pc[p] = "del" /\ last'[p] = "ok" /\ lists[arg[p]] = <<>> /\ ttl[arg[p]] = 0)
              => store' = store
         /\ (/\ pc[p] = "setex" /\ last'[p] = "ok"
             /\ cache[arg[p]] = JsonStringify(msg[p]) /\ cacheTtl[arg[p]] = CacheTTL)
              => store' = store
         /\ (op[p] = "append" /\ pc'[p] = "done" /\ last'[p] # "ok")
              => JsonStringify(msg[p]) \notin Entries(lists'[arg[p]])]_vars

\* ---------------------------------------------------------------------------
\* createEmbedding has returned to its caller
EmbedReturned == fn = "embed" /\ rpc = "done"

\* a vector of the provider's kind: at least one component, every one a number
WellFormed(v) == Len(v) > 0 /\ \A i \in 1..Len(v) : ~IsNaN(v[i])

\* C21: createEmbedding(text) always returns a well-formed vector, either the
\* deterministic fallback of the text or a vector the provider gave, and
\* without a key it returns the fallback.
C21_EmbedReturnsWellFormedVector ==
  EmbedReturned =>
    /\ WellFormed(embedding)
    /\ embedding \in {createDeterministicEmbedding(query)}
                        \cup { ProviderEmbedding(t) : t \in Texts }
    /\ ~jinaApiKey => embedding = createDeterministicEmbedding(query)

\* createBatchEmbeddings has returned to its caller
BatchReturned == fn = "batch" /\ rpc = "done"

\* C22: createBatchEmbeddings(texts) returns one vector per text, in the
\* order of the texts, and either every vector is the provider's for its text
\* or every vector is the fallback of its text.
C22_BatchIsAllOrNothing ==
  BatchReturned =>
    /\ Len(vectors) = Len(texts)
    /\ \/ vectors = [i \in 1..Len(texts) |-> ProviderEmbedding(texts[i])]
       \/ vectors = [i \in 1..Len(texts) |-> createDeterministicEmbedding(texts[i])]

\* ---------------------------------------------------------------------------
\* C23: the chunk file is read at most once per process, whether it held a
\* corpus or not.
C23_FileReadAtMostOnce == fileReads <= 1

\* C23: once a load has found a corpus, no later call reads the file or
\* changes the chunks in memory; a load that finds no corpus returns no chunk
\* and raises no error, so the search returns no result.
C23_LoadedCorpusIsNotReadAgain ==
  [][/\ embeddedChunks.loaded =>
          fileReads' = fileReads /\ embeddedChunks' = embeddedChunks
     /\ (fileReads' > fileReads /\ file.kind # "json") =>
          /\ rpc' \in {"done", "searched"}
          /\ topResults' = <<>>
          /\ embeddedChunks' = embeddedChunks]_vars

\* a search is under way after an earlier one loaded the corpus and left a
\* vector in the embedding cache
C23_Witness ==
  /\ embeddedChunks.loaded
  /\ fileReads = 1
  /\ rpc = "fetch"
  /\ \E k \in CacheKeys : embeddingCache[k] # NoVector

\* a chunk record with every field the vector store reads
WellFormedChunk(c) == WellFormed(c.embedding)

\* C24: a load returns every well-formed record of the file and leaves out
\* only the malformed ones.
C24_LoadSkipsOnlyMalformedRecords ==
  (fn \in {"search", "context"} /\ file.kind # "missing") =>
    embeddedChunks.chunks = SelectSeq(file.chunks, WellFormedChunk)

\* ---------------------------------------------------------------------------
\* the chat route has answered a request that carried message and sessionId
ChatAnswered == chat.at = "responded" /\ chat.status # 400

\* the calls the orchestration is described by
Orchestrated(c) == c # "getSessionHistory"

\* C30: for each chat query the route makes one cache get; when the cache
\* holds no entry for the query (or the get fails), one getRAGContext call,
\* then one cache set, then the append of the user message, then the append of
\* the assistant message; when the cache holds an entry, only the two appends;
\* and the cached flag of the answer is true exactly when the cache held an
\* entry.
C30_OrchestrationOrder ==
  ChatAnswered =>
    /\ SelectSeq(chat.calls, Orchestrated) =
         IF chat.hit
         THEN <<"getCachedSearchResults",
                "addMessageToSession(userMessage)", "addMessageToSession(assistantMessage)">>
         ELSE <<"getCachedSearchResults", "getRAGContext", "cacheSearchResults",
                "addMessageToSession(userMessage)", "addMessageToSession(assistantMessage)">>
    /\ chat.cached = chat.hit

\* ---------------------------------------------------------------------------
\* C31: a vector that createEmbedding returns from embeddingCache is the
\* vector the provider gave for that very text, and no two texts have the same
\* cache key.
C31_CachedVectorIsOfTheSameText ==
  [][(/\ rpc = "idle" /\ fn' = "embed" /\ rpc' = "embedded"
      /\ embeddingCache[CacheKey(query')] # NoVector
      /\ WellFormed(embeddingCache[CacheKey(query')]))
       => /\ embedding' = ProviderEmbedding(query')
          /\ \A t \in Texts : CacheKey(t) = CacheKey(query') => t = query']_vars

\* C32: two queries have the same cache key exactly when they are the same
\* sequence of characters, and a cache key is never the key of a session log
\* nor the key of the connection test.
C32_CacheKeysAreInjectiveAndApart ==
  LET a == keyed.last
      b == keyed.prev
  IN /\ (a.of = "query" /\ b.of = "query") => ((a.key = b.key) <=> (a.text = b.text))
     /\ (a.of = "query" /\ b.of = "session") => a.key # b.key
     /\ (a.of = "session" /\ b.of = "query") => a.key # b.key
     /\ a.of = "query" => a.key # HealthcheckKey

\* the same, for queries without a surrogate that has no partner
WellFormedText(s) ==
  \A i \in 1..Len(s) :
    /\ IsHigh(s[i]) => (i < Len(s) /\ IsLow(s[i + 1]))
    /\ IsLow(s[i]) => (i > 1 /\ IsHigh(s[i - 1]))
KeysOfWellFormedQueries ==
  LET a == keyed.last
      b == keyed.prev
  IN (a.of = "query" /\ b.of = "query" /\ WellFormedText(a.text) /\ WellFormedText(b.text))
       => ((a.key = b.key) <=> (a.text = b.text))

\* C33: the read client is tested like the write client: the call that
\* constructs it awaits the connection test before anything else.
C33_ReadClientIsProbedOnConstruction ==
  [][(readOnlyRedisClient = NoClient /\ readOnlyRedisClient' = ReadClient)
       => \E p \in Procs : pc[p] = "idle" /\ pc'[p] = "probe"]_vars

\* C34: a step of a read (session read, cache get) neither constructs nor
\* tests the write client and leaves redisClient as it is; a step of a write
\* (append, clear, cache set) leaves readOnlyRedisClient as it is.
C34_HandlesAreInitializedIndependently ==
  [][\A p \in Procs :
       Steps(p) =>
         /\ StepOp(p) \in {"read", "cacheGet"} =>
              /\ redisClient' = redisClient
              /\ healthcheck' = healthcheck
              /\ pc'[p] # "probe"
         /\ StepOp(p) \in {"append", "clear", "cacheSet"} =>
              readOnlyRedisClient' = readOnlyRedisClient]_vars

\* a read has constructed the read client and returned while no write client
\* exists
C34_Witness ==
  /\ readOnlyRedisClient = ReadClient
  /\ redisClient = NoClient
  /\ ~redisDisabled
  /\ \E p \in Procs : op[p] \in {"read", "cacheGet"} /\ pc[p] = "done"

\* C35: the header of each article group (title, source, relevance) is that of
\* a member of the group whose relevance is not below the relevance of any
\* member of the group.
C35_HeaderIsOfTheMostRelevantMember ==
  ContextReturned =>
    \A g \in 1..Len(ragContext.context.parts) :
      LET part == ragContext.context.parts[g]
          members == { i \in 1..Len(topResults) :
                         \E n \in 1..Len(part.content) : part.content[n] = topResults[i].id }
      IN \E i \in members :
           /\ part.title = topResults[i].title
           /\ part.source = topResults[i].source
           /\ part.relevance = topResults[i].relevanceScore
           /\ \A j \in members :
                ~IsNaN(topResults[j].relevanceScore)
                  => Geq(part.relevance, topResults[j].relevanceScore)

\* C36: no append, clear or cache set sends its first request while the
\* connection test of the write client is still awaited by another call.
C36_NoWriteThroughUnprobedClient ==
  [][\A p \in Procs :
       (pc[p] = "idle" /\ pc'[p] \in {"rpush", "del", "setex"})
         => ~\E q \in Procs : pc[q] = "probe"]_vars

\* C37: every entry of embeddingCache is the vector the provider returned for
\* a text of that key, never a fallback vector; an entry once written is never
\* removed and never replaced by anything but such a vector; and
\* createBatchEmbeddings leaves the cache as it is.
C37_CacheHoldsOnlyProviderVectors ==
  [][/\ \A k \in CacheKeys :
          /\ embeddingCache'[k] # NoVector =>
               \E t \in Texts : CacheKey(t) = k /\ embeddingCache'[k] = ProviderEmbedding(t)
          /\ embeddingCache[k] # NoVector => embeddingCache'[k] # NoVector
     /\ (fn = "batch" \/ fn' = "batch") => embeddingCache' = embeddingCache]_vars

\* C38: no batch is requested more than three times, and when the script has
\* written its output every input chunk is in it exactly once, in input order,
\* and the chunks of each batch all carry provider embeddings and no error mark
\* or all carry fallback embeddings and the error mark.
C38_EveryChunkOnceAndBatchesUniform ==
  /\ setup.attempts <= MaxRetries
  /\ setup.at = "done" =>
       LET out == setup.embeddedChunks
       IN /\ Len(out) = setup.chunks
          /\ \A k \in 1..Len(out) : out[k].chunk = k
          /\ \A k \in 1..Len(out) :
               \/ out[k].embedding = "provider" /\ ~out[k].error
               \/ out[k].embedding = "mock" /\ out[k].error
          /\ \A k, l \in 1..Len(out) :
               (out[k].chunk - 1) \div BatchSize = (out[l].chunk - 1) \div BatchSize
                 => out[k].error = out[l].error

\* the script ends
SetupTerminates == <>(setup.at = "done")

\* the same as C38 when the provider's data arrays hold an embedding in every item
SetupWellFormedAnswers ==
  (\A k \in 1..Len(setup.embeddedChunks) :
     /\ setup.embeddedChunks[k].embedding # "undefined"
     /\ \A l \in 1..Len(setup.embeddedChunks) :
          setup.embeddedChunks[k].chunk = setup.embeddedChunks[l].chunk => k = l)
    => C38_EveryChunkOnceAndBatchesUniform

\* C39: the history stored under a session id, and the history shown while a
\* session is the current one, hold only messages of that session, however
\* session switches and resets interleave with a query or a history load in
\* flight.
C39_HistoryHoldsOnlyItsSessionsMessages ==
  /\ \A s \in SessionNumbers :
       \A k \in 1..Len(localStorage[s]) : localStorage[s][k].session = s
  /\ \A k \in 1..Len(ui.messages) : ui.messages[k].session = ui.sessionId
====
